---- MODULE Spec2Model ----
(***************************************************************************)
(* A model of the Job-Autofill resolution and fill pipeline.               *)
(*                                                                         *)
(* Scripts modelled:                                                       *)
(*   form_answer_gemini.py       the language-model answer pass ("a5")     *)
(*   a6_complete_skipped_fields  the interactive completion pass ("a6")    *)
(*   telegram_bot.py             the chat front end's completion path      *)
(*   a7_fill_form_resume.py      the fill pass ("a7")                      *)
(*   pipeline_runner.py          the step sequencing                       *)
(*   app/runner.py, app/llm.py   the single-process run_once flow          *)
(*                                                                         *)
(* JSON values are tagged records [t, v]: t is the JSON type and v the     *)
(* sequence of strings it carries (one string for a scalar).  Question     *)
(* texts are sequences of whitespace-separated word tokens.                *)
(***************************************************************************)
EXTENDS Integers, Sequences, FiniteSets, TLC

\* ------------------------------------------------------------------------
\* Bounds of the model
\* ------------------------------------------------------------------------
MaxFields == 2
MaxModelSkipped == 1
MaxSkipLen == 3
MaxOptions == 3

\* Browser operations that raise during one call of a form-control helper.
MaxFailures == 2

\* ------------------------------------------------------------------------
\* Strings
\* ------------------------------------------------------------------------
\* str.casefold() / str.lower() on the strings of the model.
CaseFold(s) ==
    CASE s = "Yes" -> "yes"
      [] s = "No" -> "no"
      [] s = "Maybe" -> "maybe"
      [] s = "Python" -> "python"
      [] s = "Java" -> "java"
      [] s = "Expected" -> "expected"
      [] s = "CTC" -> "ctc"
      [] s = "UNKNOWN" -> "unknown"
      [] s = "Unknown" -> "unknown"
      [] OTHER -> s

\* str.upper() on the strings of the model.
Upper(s) ==
    CASE s = "unknown" -> "UNKNOWN"
      [] s = "Unknown" -> "UNKNOWN"
      [] s = "UNKNOWN" -> "UNKNOWN"
      [] s = "alice" -> "ALICE"
      [] s = "Unknown." -> "UNKNOWN."
      [] OTHER -> s

\* str.strip() on the strings of the model: only " yes " carries padding.
Strip(s) == IF s = " yes " THEN "yes" ELSE s

\* str.isdigit() and int() on the strings of the model.
IsDigit(s) == s \in {"1", "2", "3"}
IntOf(s) == CASE s = "1" -> 1 [] s = "2" -> 2 [] s = "3" -> 3 [] OTHER -> 0

SeqToSet(s) == {s[i] : i \in 1..Len(s)}

\* ------------------------------------------------------------------------
\* JSON values
\* ------------------------------------------------------------------------
StrV(s) == [t |-> "str", v |-> <<s>>]
ListV(l) == [t |-> "list", v |-> l]
NumV(s) == [t |-> "num", v |-> <<s>>]
NullV == [t |-> "null", v |-> <<>>]

\* ------------------------------------------------------------------------
\* Personal / preference patterns (form_answer_gemini.py PERSONAL_PATTERNS)
\* ------------------------------------------------------------------------
\* The single-word patterns \bword\b.
PersonalWords ==
    {"ctc", "salary", "compensation", "package", "expected", "current",
     "notice", "lwd", "joining", "buyout", "wfh", "wfo", "hybrid", "shift",
     "shifts", "relocate", "relocation", "travel", "gender", "age", "dob",
     "marital", "bond", "nda", "visa", "immigration", "noncompete",
     "non-compete", "lastworkingday", "workfromhome", "preferredlocation",
     "dateofbirth", "serviceagreement"}

\* The patterns whose words are joined by \s*: consecutive tokens.
PersonalPhrases ==
    {<<"last", "working", "day">>, <<"work", "from", "home">>,
     <<"preferred", "location">>, <<"date", "of", "birth">>,
     <<"service", "agreement">>}

HasPhrase(q, p) ==
    \E i \in 1..Len(q) :
        /\ i + Len(p) - 1 <= Len(q)
        /\ \A j \in 1..Len(p) : q[i + j - 1] = p[j]

LowerAll(q) == [i \in 1..Len(q) |-> CaseFold(q[i])]

is_personal(question) ==
    LET q == LowerAll(question)
    IN \/ \E i \in 1..Len(q) : q[i] \in PersonalWords
       \/ \E p \in PersonalPhrases : HasPhrase(q, p)

\* ------------------------------------------------------------------------
\* Fields (NormalizedField)
\* ------------------------------------------------------------------------
Field(id, question, type, options, multi) ==
    [id |-> id, question |-> question, type |-> type, options |-> options,
     allows_multiple |-> multi]

FName == Field("f_name", <<"first", "name">>, "text", <<>>, FALSE)
FCtc == Field("f_ctc", <<"Expected", "CTC">>, "text", <<>>, FALSE)
FPy == Field("f_py", <<"know", "python">>, "radio", <<"Yes", "No">>, FALSE)
FLangs == Field("f_langs", <<"languages">>, "multiselect", <<"Python", "Java">>, TRUE)

Catalogue == <<FName, FCtc, FPy, FLangs>>

\* A form: the catalogue fields at a strictly increasing index sequence.
IndexSeqs ==
    {s \in UNION {[1..n -> 1..Len(Catalogue)] : n \in 1..MaxFields} :
        \A i \in 1..(Len(s) - 1) : s[i] < s[i + 1]}

Forms == {[i \in 1..Len(s) |-> Catalogue[s[i]]] : s \in IndexSeqs}

FieldIds(form) == {form[i].id : i \in 1..Len(form)}
FieldById(form, fid) == CHOOSE f \in SeqToSet(form) : f.id = fid

\* ------------------------------------------------------------------------
\* ci_match_label (form_answer_gemini.py, a6_complete_skipped_fields.py)
\* ------------------------------------------------------------------------
NoLabel == "<none>"

ci_match_label(val, labels) ==
    LET v == CaseFold(Strip(val))
        hits == {i \in 1..Len(labels) : CaseFold(labels[i]) = v}
    IN IF hits = {} THEN NoLabel
       ELSE labels[CHOOSE i \in hits : \A j \in hits : i <= j]

\* ------------------------------------------------------------------------
\* Maps (Python dicts) as functions
\* ------------------------------------------------------------------------
EmptyMap == [k \in {} |-> NullV]
Put(m, k, val) == [x \in (DOMAIN m) \cup {k} |-> IF x = k THEN val ELSE m[x]]
\* dict.update: the keys of b overwrite those of a.
Update(a, b) ==
    [x \in (DOMAIN a) \cup (DOMAIN b) |-> IF x \in DOMAIN b THEN b[x] ELSE a[x]]

\* ------------------------------------------------------------------------
\* validate_and_clip (form_answer_gemini.py)
\* ------------------------------------------------------------------------
ReasonPersonal == "personal/preference"
ReasonNotInSources == "not in sources / ambiguous"
ReasonNoValidOption == "no valid option chosen"
ReasonInvalidType == "invalid value type"

Skip(f, reason) == [id |-> f.id, question |-> f.question, reason |-> reason]

\* The model's own skipped entries that carry an id and a reason.
CarryOver(out_skipped) ==
    SelectSeq(out_skipped, LAMBDA s : s.id /= "" /\ s.reason /= "")

\* The labels matched by the strings of a list, in order (no de-duplication).
RECURSIVE MatchAll(_, _)
MatchAll(vals, labels) ==
    IF vals = <<>> THEN <<>>
    ELSE LET lab == ci_match_label(Head(vals), labels)
         IN (IF lab = NoLabel THEN <<>> ELSE <<lab>>) \o MatchAll(Tail(vals), labels)

\* One iteration of the loop over fields; acc = [answers, skipped].
ClipField(f, out_answers, acc) ==
    IF is_personal(f.question)
    THEN [acc EXCEPT !.skipped = Append(@, Skip(f, ReasonPersonal))]
    ELSE IF f.id \notin DOMAIN out_answers
    THEN IF \E i \in 1..Len(acc.skipped) : acc.skipped[i].id = f.id
         THEN acc
         ELSE [acc EXCEPT !.skipped = Append(@, Skip(f, ReasonNotInSources))]
    ELSE LET val == out_answers[f.id] IN
         IF f.options /= <<>>
         THEN IF f.allows_multiple
              THEN LET chosen == IF val.t = "list" THEN MatchAll(val.v, f.options)
                                 ELSE IF val.t = "str" THEN MatchAll(val.v, f.options)
                                 ELSE <<>>
                   IN IF chosen /= <<>>
                      THEN [acc EXCEPT !.answers = Put(@, f.id, ListV(chosen))]
                      ELSE [acc EXCEPT !.skipped = Append(@, Skip(f, ReasonNoValidOption))]
              ELSE IF val.t = "str"
                   THEN LET lab == ci_match_label(val.v[1], f.options)
                        IN IF lab /= NoLabel
                           THEN [acc EXCEPT !.answers = Put(@, f.id, StrV(lab))]
                           ELSE [acc EXCEPT !.skipped = Append(@, Skip(f, ReasonNoValidOption))]
                   ELSE [acc EXCEPT !.skipped = Append(@, Skip(f, ReasonInvalidType))]
         ELSE IF val.t \in {"str", "num", "bool", "list"}
              THEN [acc EXCEPT !.answers = Put(@, f.id, val)]
              ELSE [acc EXCEPT !.skipped = Append(@, Skip(f, ReasonInvalidType))]

RECURSIVE ClipFrom(_, _, _, _)
ClipFrom(fields, i, out_answers, acc) ==
    IF i > Len(fields) THEN acc
    ELSE ClipFrom(fields, i + 1, out_answers, ClipField(fields[i], out_answers, acc))

validate_and_clip(fields, model_out) ==
    ClipFrom(fields, 1, model_out.answers,
             [answers |-> EmptyMap, skipped |-> CarryOver(model_out.skipped)])

\* ------------------------------------------------------------------------
\* The language-model collaborator's replies to call_gemini
\* ------------------------------------------------------------------------
\* Values the model may return for a field: a usable one, a case/padding
\* variant, a value outside the options, a value of the wrong type.
CandidateValues(f) ==
    IF f.options = <<>> THEN {StrV("alice"), NullV}
    ELSE IF f.allows_multiple
    THEN {ListV(<<"python", "Maybe">>), StrV("java")}
    ELSE {StrV(" yes "), StrV("Maybe")}

AnswerMaps(form) ==
    UNION {{m \in [S -> UNION {CandidateValues(form[i]) : i \in 1..Len(form)}] :
                \A k \in S : m[k] \in CandidateValues(FieldById(form, k))}
           : S \in SUBSET FieldIds(form)}

GhostId == "f_ghost"

\* Entries of the model's own "skipped" list: for a field of the form or for
\* an id the form does not have.
ModelSkipRecs(form) ==
    {[id |-> f.id, question |-> f.question, reason |-> "not in resume"] :
        f \in SeqToSet(form)}
    \cup {[id |-> GhostId, question |-> <<"ghost">>, reason |-> "not in resume"]}

SkipLists(form) ==
    UNION {[1..n -> ModelSkipRecs(form)] : n \in 0..MaxModelSkipped}

\* kind "json": the text parses to an object; "empty": the text is empty;
\* "text": the text is prose that holds no JSON object.
JsonReply(a, sk) == [kind |-> "json", answers |-> a, skipped |-> sk]
EmptyReply == [kind |-> "empty", answers |-> EmptyMap, skipped |-> <<>>]
ProseReply == [kind |-> "text", answers |-> EmptyMap, skipped |-> <<>>]

LLMReplies(form) ==
    {JsonReply(a, sk) : a \in AnswerMaps(form), sk \in SkipLists(form)}
    \cup {EmptyReply, ProseReply}

\* call_gemini: json.loads of the reply text, or ValueError.
call_gemini(reply) ==
    IF reply.kind = "json"
    THEN [raised |-> FALSE, out |-> [answers |-> reply.answers, skipped |-> reply.skipped]]
    ELSE [raised |-> TRUE, out |-> [answers |-> EmptyMap, skipped |-> <<>>]]

\* A payload builder that would run the personal/preference check first and
\* leave the matching fields out of the request (not what the code does).
build_model_payload_filtered(fields) ==
    {fields[i].id : i \in {j \in 1..Len(fields) : ~is_personal(fields[j].question)}}

\* build_model_payload: the ids of the fields handed to the model, all of them.
build_model_payload(fields) == {fields[i].id : i \in 1..Len(fields)}

\* ------------------------------------------------------------------------
\* a6_complete_skipped_fields.py: dedup, prior answers, prompts
\* ------------------------------------------------------------------------
\* A first loop that would keep the first record seen for each id, whatever
\* the reasons (not what the code does).
RECURSIVE DedupChosenFirstSeen(_, _, _)
DedupChosenFirstSeen(list, i, chosen) ==
    IF i > Len(list) THEN chosen
    ELSE LET item == list[i] IN
         IF item.id = "" \/ item.id \in DOMAIN chosen
         THEN DedupChosenFirstSeen(list, i + 1, chosen)
         ELSE DedupChosenFirstSeen(list, i + 1, Put(chosen, item.id, item))

\* First loop of dedup_skipped_by_id: the record kept for each id.
RECURSIVE DedupChosen(_, _, _)
DedupChosen(list, i, chosen) ==
    IF i > Len(list) THEN chosen
    ELSE LET item == list[i] IN
         IF item.id = "" THEN DedupChosen(list, i + 1, chosen)
         ELSE IF item.id \notin DOMAIN chosen
         THEN DedupChosen(list, i + 1, Put(chosen, item.id, item))
         ELSE IF item.reason = ReasonPersonal /\ chosen[item.id].reason /= ReasonPersonal
         THEN DedupChosen(list, i + 1, Put(chosen, item.id, item))
         ELSE DedupChosen(list, i + 1, chosen)

\* Second loop: one record per id, in the order of first appearance.
RECURSIVE DedupOut(_, _, _, _)
DedupOut(list, i, seen, chosen) ==
    IF i > Len(list) THEN <<>>
    ELSE LET fid == list[i].id IN
         IF fid = "" \/ fid \in seen THEN DedupOut(list, i + 1, seen, chosen)
         ELSE <<chosen[fid]>> \o DedupOut(list, i + 1, seen \cup {fid}, chosen)

dedup_skipped_by_id(skipped_list) ==
    DedupOut(skipped_list, 1, {}, DedupChosen(skipped_list, 1, EmptyMap))

\* A wrapped answer {question, answer}.
Bundle(q, a) == [question |-> q, answer |-> a]

\* unwrap_previous_completed: {id: {question, answer}} -> {id: answer}.
unwrap_previous_completed(prev) == [fid \in DOMAIN prev |-> prev[fid].answer]

\* A line typed by the user is the sequence of its comma separated
\* tokens; <<>> is the empty line.  LineOf is the line as typed.
LineOf(raw) ==
    IF raw = <<>> THEN "" ELSE IF Len(raw) = 1 THEN raw[1] ELSE "1,2"

RECURSIVE ParseFrom(_, _, _)
ParseFrom(toks, labels, chosen) ==
    IF toks = <<>> THEN chosen
    ELSE LET tk == Head(toks)
             pick == IF IsDigit(tk)
                     THEN (IF IntOf(tk) - 1 >= 0 /\ IntOf(tk) - 1 < Len(labels)
                           THEN labels[IntOf(tk)] ELSE NoLabel)
                     ELSE ci_match_label(tk, labels)
         IN IF pick /= NoLabel /\ pick \notin SeqToSet(chosen)
            THEN ParseFrom(Tail(toks), labels, Append(chosen, pick))
            ELSE ParseFrom(Tail(toks), labels, chosen)

parse_selection(raw, labels) == ParseFrom(raw, labels, <<>>)

Answered(val) == [answered |-> TRUE, val |-> val]
NotAnswered == [answered |-> FALSE, val |-> NullV]

\* ask_for_field on the typed line raw (no field of the catalogue is a file).
ask_for_field(field, raw) ==
    IF field.options /= <<>>
    THEN IF raw = <<>> THEN NotAnswered
         ELSE LET chosen == parse_selection(raw, field.options) IN
              IF field.allows_multiple
              THEN (IF chosen /= <<>> THEN Answered(ListV(chosen)) ELSE NotAnswered)
              ELSE (IF Len(chosen) = 1 THEN Answered(StrV(chosen[1])) ELSE NotAnswered)
    ELSE IF raw = <<>> THEN NotAnswered ELSE Answered(StrV(LineOf(raw)))

\* Lines the user may type at a prompt of ask_for_field.
AskInputs(f) ==
    IF f.options = <<>> THEN {<<>>, <<"bob">>}
    ELSE IF f.allows_multiple THEN {<<>>, <<"2", "python">>, <<"Maybe">>}
    ELSE {<<>>, <<"1">>, <<"Maybe">>, <<"1", "2">>}

\* The labels of the valid numbers of a line (no de-duplication).
RECURSIVE SelectedOptions(_, _)
SelectedOptions(toks, labels) ==
    IF toks = <<>> THEN <<>>
    ELSE (IF IsDigit(Head(toks)) /\ 1 <= IntOf(Head(toks)) /\ IntOf(Head(toks)) <= Len(labels)
          THEN <<labels[IntOf(Head(toks))]>> ELSE <<>>)
         \o SelectedOptions(Tail(toks), labels)

\* One prompt of interactive_review_all_answers: the answer after the line
\* raw was typed for a field (has_info: the form knows the field id).
review_answer(has_info, field, current, raw) ==
    IF raw = <<>> THEN current
    ELSE IF has_info /\ field.options /= <<>>
    THEN IF Len(raw) >= 2 \/ IsDigit(raw[1])
         THEN LET selected == SelectedOptions(raw, field.options) IN
              IF selected /= <<>>
              THEN (IF field.allows_multiple \/ Len(selected) > 1
                    THEN ListV(selected) ELSE StrV(selected[1]))
              ELSE current
         ELSE StrV(LineOf(raw))
    ELSE StrV(LineOf(raw))

\* Lines the user may type at a prompt of the final review.
ReviewInputs(has_info, f) ==
    IF has_info /\ f.options /= <<>>
    THEN {<<>>, <<"2">>, <<"Maybe">>}
    ELSE {<<>>, <<"bob">>}

\* ------------------------------------------------------------------------
\* State
\* ------------------------------------------------------------------------
VARIABLES
    mode,            \* "cli": pipeline_runner.run_pipeline; "bot": telegram_bot
    pc,              \* position of the run
    form,            \* the fields written by the form extractor (step 4)
    llm_sent,        \* ids of the fields sent to the language model
    llm_reply,       \* the model's reply: its kind and the ids it answered
    filled_answers,  \* filled_answers.json: {id: value}
    skipped_fields,  \* skipped_fields.json: [{id, question, reason}]
    user_completed,  \* user_completed_answers.json: {id: {question, answer}}
    uc_state,        \* user_completed_answers.json: "absent", "empty" or "json"
    still_skipped,   \* still_skipped.json
    skipped_list,    \* a6: the de-duplicated skip list
    known_answers,   \* a6: existing_filled updated with previous_values
    new_values,      \* a6: answers typed in this run
    wrapped,         \* a6: wrapped_output / modified_answers
    order,           \* a6: key order of wrapped_output
    idx,             \* a6 / bot / a7: loop index
    prompted,        \* field ids the completion loop has prompted for
    reviewed,        \* field ids the final review has prompted for
    session_answers, \* bot: session["answers"]
    fill_answers,    \* a7: the answers map load_answers returned
    fill_order,      \* a7: key order of that map
    visited,         \* a7: ids whose fill_one_field call has returned
    written          \* a7: ids whose control was written

pipeVars == <<mode, pc, form, llm_sent, llm_reply, filled_answers, skipped_fields,
              user_completed, uc_state, still_skipped, skipped_list,
              known_answers, new_values, wrapped, order, idx, prompted, reviewed,
              session_answers, fill_answers, fill_order, visited, written>>

fileVars == <<filled_answers, skipped_fields, user_completed, uc_state, still_skipped>>
a6Vars == <<skipped_list, known_answers, new_values, wrapped, order, prompted, reviewed>>
a7Vars == <<fill_answers, fill_order, visited, written>>

\* State of app/runner.py run_once.
VARIABLES
    r_pc,             \* position in run_once
    r_fields,         \* fields returned by collect_form_fields
    contact,          \* extract_contact(load_profile())
    resume_text,      \* read_resume_text() is non-empty
    planned_by_key,   \* planned_by_key
    planned_by_field, \* planned_by_field, keyed by the field's position
    answer_source,    \* who supplied planned_by_key[k]: profile, llm or human
    r_todo,           \* the keys the current loop still has to visit
    remaining,        \* the re-check's list of required fields still blank
    r_idx,            \* loop index over r_fields / remaining
    current,          \* positions of the fields that hold a value on the page
    page_writes,      \* writes into the page so far
    llm_asked,        \* keys infer_with_llm was called for
    human_asked,      \* prompts shown to the user: [key] or [pos] records
    steps_done        \* the steps of run_once that have completed

runVars == <<r_pc, r_fields, contact, resume_text, planned_by_key, planned_by_field,
             answer_source, r_todo, remaining, r_idx, current, page_writes,
             llm_asked, human_asked, steps_done>>

\* State of one call of an option-matching prompt (Chooese_from_user.py
\* choose_from_user, app/prompts.py prompt_user_choice).
VARIABLES
    ch_pc,            \* "off", "ask" (options printed, waiting for input) or "done"
    ch_options,       \* the (value, label) pairs offered
    ch_ans,           \* the line the user typed, stripped
    ch_result,        \* what choose_from_user returned
    ch_prompt,        \* what one round of prompt_user_choice did
    ch_clicked,       \* position of the option select_in_combobox clicked, 0 for none
    ch_picks          \* what a multi-select prompt made of the line

chooseVars == <<ch_pc, ch_options, ch_ans, ch_result, ch_prompt, ch_clicked, ch_picks>>

\* One call of a form-control helper of the fill step (a7_fill_form_resume.py
\* select_native_select, open_combo_type_slow_pick_first, safe_fill_text,
\* click_option_label_near, auto_resume_tick, smart_file_upload;
\* fill_form.py upload_file_best_effort; app/fill.py fill_value_into_field).
VARIABLES
    w_pc,             \* "off", "ready" (about to be called) or "done"
    w_fn,             \* the helper being called
    w_value,          \* the value handed to the helper
    w_fails,          \* the browser operations that raise during this call
    w_trace,          \* the operations that took effect on the page, in order
    w_ret,            \* "none", "true", "false" or "raised"
    w_select,         \* the <select>: its options and the selected position
    w_group,          \* the radio/checkbox group: its peers and the located one
    w_combo,          \* the combobox: visibility of its options, the clicked one
    w_upload          \* what the page offers for attaching a file

widgetVars == <<w_pc, w_fn, w_value, w_fails, w_trace, w_ret, w_select, w_group, w_combo, w_upload>>

\* One call of a helper of field discovery or of schema normalisation
\* (a4_enhanced_form_extractor.py, form_extractor.py, app/widgets.py,
\* normalize_fields of form_answer_gemini.py and a6_complete_skipped_fields.py),
\* or the end of one fill run from the approval prompt on (main of
\* a7_fill_form_resume.py, fill_form.py and fill_form_resume.py, run_once).
VARIABLES
    x_pc,             \* "off", "ready" (about to be called), a place in it, or "done"
    x_fn,             \* the helper being called
    x_in,             \* what it is handed
    x_out             \* what it has produced so far

extractVars == <<x_pc, x_fn, x_in, x_out>>

toolVars == <<chooseVars, widgetVars, extractVars>>

vars == <<pipeVars, runVars, toolVars>>

\* No option-matching prompt is open.
ChooseIdle ==
    /\ ch_pc = "off"
    /\ ch_options = <<>>
    /\ ch_ans = <<>>
    /\ ch_result = [ok |-> FALSE, v |-> <<>>, step |-> "none"]
    /\ ch_prompt = [kind |-> "none", v |-> <<>>]
    /\ ch_clicked = 0
    /\ ch_picks = [kind |-> "none", vals |-> <<>>]

NoSelect == [options |-> <<>>, selected |-> 0]

NoGroup == [kind |-> "none", peers |-> <<>>, checked |-> <<>>, was |-> <<>>, target |-> 0]

NoCombo == [options |-> <<>>, clicked |-> 0]

NoUpload ==
    [file |-> FALSE, near_input |-> FALSE, main_input |-> FALSE, frame_input |-> FALSE,
     near_button |-> FALSE, main_button |-> FALSE, frame_button |-> FALSE]

\* No form-control helper is being called.
WidgetIdle ==
    /\ w_pc = "off"
    /\ w_fn = "none"
    /\ w_value = <<>>
    /\ w_fails = {}
    /\ w_trace = <<>>
    /\ w_ret = "none"
    /\ w_select = NoSelect
    /\ w_group = NoGroup
    /\ w_combo = NoCombo
    /\ w_upload = NoUpload

NoInput == [none |-> TRUE]

\* No discovery or normalisation helper is being called.
ExtractIdle ==
    /\ x_pc = "off"
    /\ x_fn = "none"
    /\ x_in = NoInput
    /\ x_out = NoInput

ToolIdle == ChooseIdle /\ WidgetIdle /\ ExtractIdle

\* run_once is not running.
RunIdle ==
    /\ r_pc = "off"
    /\ r_fields = <<>>
    /\ contact = EmptyMap
    /\ resume_text = FALSE
    /\ planned_by_key = EmptyMap
    /\ planned_by_field = EmptyMap
    /\ answer_source = EmptyMap
    /\ r_todo = <<>>
    /\ remaining = <<>>
    /\ r_idx = 0
    /\ current = {}
    /\ page_writes = {}
    /\ llm_asked = {}
    /\ human_asked = {}
    /\ steps_done = {}

\* The ids of form (in form order) that are keys of map m.
KeysInFormOrder(m) ==
    LET ids == [i \in 1..Len(form) |-> form[i].id]
    IN SelectSeq(ids, LAMBDA k : k \in DOMAIN m)

\* ------------------------------------------------------------------------
\* pipeline_runner.py / telegram_bot.py: steps 1 to 4
\* ------------------------------------------------------------------------
\* run_pipeline: _clear_output_files has emptied the output files.  The bot
\* clears nothing; it starts from an output directory without them.
InitPipeline ==
    /\ mode \in {"cli", "bot"}
    /\ pc = "a1"
    /\ form = <<>>
    /\ llm_sent = {}
    /\ llm_reply = [kind |-> "none", answered |-> {}]
    /\ filled_answers = EmptyMap
    /\ skipped_fields = <<>>
    /\ user_completed = EmptyMap
    /\ uc_state = IF mode = "cli" THEN "empty" ELSE "absent"
    /\ still_skipped = <<>>
    /\ skipped_list = <<>>
    /\ known_answers = EmptyMap
    /\ new_values = EmptyMap
    /\ wrapped = EmptyMap
    /\ order = <<>>
    /\ idx = 0
    /\ prompted = {}
    /\ reviewed = {}
    /\ session_answers = EmptyMap
    /\ fill_answers = EmptyMap
    /\ fill_order = <<>>
    /\ visited = {}
    /\ written = {}
    /\ RunIdle
    /\ ToolIdle

NextEarly(step) ==
    CASE step = "a1" -> "a2"
      [] step = "a2" -> "a3"
      [] step = "a3" -> IF mode = "bot" THEN "a3_approval" ELSE "a4"

\* _run_script of a1_page_judger, a2_resume_parser_gemini and
\* a3_cover_letter_and_summary: exit code 0, or the run ends.
RunEarlyStep ==
    /\ pc \in {"a1", "a2", "a3"}
    /\ \E ok \in BOOLEAN : pc' = IF ok THEN NextEarly(pc) ELSE "failed"
    /\ UNCHANGED <<runVars, toolVars>>
    /\ UNCHANGED <<mode, form, llm_sent, llm_reply, idx, session_answers>>
    /\ UNCHANGED <<fileVars, a6Vars, a7Vars>>

\* handle_a3_approval: yes continues, no ends, anything else asks again.
HandleA3Approval ==
    /\ pc = "a3_approval"
    /\ \E response \in {"yes", "no", "later"} :
          pc' = IF response = "no" THEN "ended"
                ELSE IF response = "yes" THEN "a4" ELSE "a3_approval"
    /\ UNCHANGED <<runVars, toolVars>>
    /\ UNCHANGED <<mode, form, llm_sent, llm_reply, idx, session_answers>>
    /\ UNCHANGED <<fileVars, a6Vars, a7Vars>>

\* Step 4, the form extractor: writes the discovered fields, or fails.
RunFormExtractor ==
    /\ pc = "a4"
    /\ \/ /\ \E f \in Forms : form' = f
          /\ pc' = "a5"
       \/ /\ form' = form
          /\ pc' = "failed"
    /\ UNCHANGED <<runVars, toolVars>>
    /\ UNCHANGED <<mode, llm_sent, llm_reply, idx, session_answers>>
    /\ UNCHANGED <<fileVars, a6Vars, a7Vars>>

\* ------------------------------------------------------------------------
\* form_answer_gemini.py main (step 5)
\* ------------------------------------------------------------------------
\* main up to the call of the model: every normalized field is in the payload.
A5Send ==
    /\ pc = "a5"
    /\ llm_sent' = build_model_payload(form)
    /\ pc' = "a5_wait"
    /\ UNCHANGED <<runVars, toolVars>>
    /\ UNCHANGED <<mode, form, llm_reply, idx, session_answers>>
    /\ UNCHANGED <<fileVars, a6Vars, a7Vars>>

\* main from the model's reply on: call_gemini raises and the script dies
\* before writing anything, or validate_and_clip's outputs are written.
A5Receive ==
    /\ pc = "a5_wait"
    /\ \E reply \in LLMReplies(form) :
          LET got == call_gemini(reply)
              res == validate_and_clip(form, got.out)
          IN /\ llm_reply' = [kind |-> reply.kind, answered |-> DOMAIN reply.answers]
             /\ IF got.raised
                THEN /\ pc' = "a5_crashed"
                     /\ UNCHANGED <<filled_answers, skipped_fields>>
                ELSE /\ pc' = IF mode = "cli" THEN "a6" ELSE "bot_a5_done"
                     /\ filled_answers' = res.answers
                     /\ skipped_fields' = res.skipped
    /\ UNCHANGED <<runVars, toolVars>>
    /\ UNCHANGED <<mode, form, llm_sent, idx, session_answers>>
    /\ UNCHANGED <<user_completed, uc_state, still_skipped, a6Vars, a7Vars>>

\* ------------------------------------------------------------------------
\* a6_complete_skipped_fields.py main (step 6)
\* ------------------------------------------------------------------------
HasField(fid) == fid \in FieldIds(form)

\* A completion loop without the known-answers guard (not what the code does).
already_known_never(fid, known) == FALSE

\* "if fid in known_answers: continue" of the completion loop.
already_known(fid, known) == fid \in DOMAIN known

\* main up to the completion loop: the skip list is de-duplicated, the
\* existing answers and the previous interactive output are loaded.
A6Load ==
    /\ pc = "a6"
    /\ skipped_list' = dedup_skipped_by_id(skipped_fields)
    /\ known_answers' = Update(filled_answers, unwrap_previous_completed(user_completed))
    /\ new_values' = EmptyMap
    /\ still_skipped' = <<>>
    /\ idx' = 1
    /\ pc' = "a6_ask"
    /\ UNCHANGED <<runVars, toolVars>>
    /\ UNCHANGED <<mode, form, llm_sent, llm_reply, session_answers>>
    /\ UNCHANGED <<filled_answers, skipped_fields, user_completed, uc_state>>
    /\ UNCHANGED <<wrapped, order, prompted, reviewed, a7Vars>>

\* One iteration of "for s in skipped_list".
A6Ask ==
    /\ pc = "a6_ask"
    /\ idx <= Len(skipped_list)
    /\ LET s == skipped_list[idx]
           fid == s.id
       IN IF already_known(fid, known_answers)
          THEN UNCHANGED <<new_values, still_skipped, prompted>>
          ELSE IF ~HasField(fid)
          THEN /\ still_skipped' = Append(still_skipped,
                      [id |-> fid, question |-> s.question,
                       reason |-> "field metadata not found"])
               /\ UNCHANGED <<new_values, prompted>>
          ELSE \E raw \in AskInputs(FieldById(form, fid)) :
                  LET f == FieldById(form, fid)
                      got == ask_for_field(f, raw)
                  IN /\ prompted' = prompted \cup {fid}
                     /\ IF got.answered
                        THEN /\ new_values' = Put(new_values, fid, got.val)
                             /\ UNCHANGED still_skipped
                        ELSE /\ still_skipped' = Append(still_skipped,
                                    [id |-> fid, question |-> f.question,
                                     reason |-> s.reason])
                             /\ UNCHANGED new_values
    /\ idx' = idx + 1
    /\ UNCHANGED <<runVars, toolVars>>
    /\ UNCHANGED <<mode, pc, form, llm_sent, llm_reply, session_answers>>
    /\ UNCHANGED <<filled_answers, skipped_fields, user_completed, uc_state>>
    /\ UNCHANGED <<skipped_list, known_answers, wrapped, order, reviewed, a7Vars>>

\* input() of ask_for_field meets end of input: EOFError is not caught, the
\* script dies and run_pipeline stops after step 6.
A6AskEOF ==
    /\ pc = "a6_ask"
    /\ idx <= Len(skipped_list)
    /\ ~already_known(skipped_list[idx].id, known_answers)
    /\ HasField(skipped_list[idx].id)
    /\ prompted' = prompted \cup {skipped_list[idx].id}
    /\ pc' = "a6_crashed"
    /\ UNCHANGED <<runVars, toolVars>>
    /\ UNCHANGED <<mode, form, llm_sent, llm_reply, idx, session_answers>>
    /\ UNCHANGED <<fileVars, a7Vars>>
    /\ UNCHANGED <<skipped_list, known_answers, new_values, wrapped, order, reviewed>>

\* Key order of merged_values: the known answers, then the new ones.
MergedOrder ==
    LET asked == [i \in 1..Len(skipped_list) |-> skipped_list[i].id]
    IN KeysInFormOrder(known_answers)
       \o SelectSeq(asked, LAMBDA k : k \in DOMAIN new_values /\ k \notin DOMAIN known_answers)

QuestionNotFound == <<"(question text not found in form)">>

\* "Merge and wrap output".
A6Merge ==
    /\ pc = "a6_ask"
    /\ idx > Len(skipped_list)
    /\ LET merged_values == Update(known_answers, new_values)
       IN wrapped' = [fid \in DOMAIN merged_values |->
                        Bundle(IF HasField(fid) THEN FieldById(form, fid).question
                               ELSE QuestionNotFound,
                               merged_values[fid])]
    /\ order' = MergedOrder
    /\ idx' = 1
    /\ pc' = "a6_review"
    /\ UNCHANGED <<runVars, toolVars>>
    /\ UNCHANGED <<mode, form, llm_sent, llm_reply, session_answers>>
    /\ UNCHANGED <<fileVars, a7Vars>>
    /\ UNCHANGED <<skipped_list, known_answers, new_values, prompted, reviewed>>

\* One iteration of the modification loop of interactive_review_all_answers.
A6Review ==
    /\ pc = "a6_review"
    /\ idx <= Len(order)
    /\ LET fid == order[idx]
           has_info == HasField(fid)
           f == IF has_info THEN FieldById(form, fid) ELSE FName
       IN \E raw \in ReviewInputs(has_info, f) :
             wrapped' = [wrapped EXCEPT ![fid].answer =
                            review_answer(has_info, f, wrapped[fid].answer, raw)]
    /\ reviewed' = reviewed \cup {order[idx]}
    /\ idx' = idx + 1
    /\ UNCHANGED <<runVars, toolVars>>
    /\ UNCHANGED <<mode, pc, form, llm_sent, llm_reply, session_answers>>
    /\ UNCHANGED <<fileVars, a7Vars>>
    /\ UNCHANGED <<skipped_list, known_answers, new_values, order, prompted>>

\* End of input during the review: "Skipping remaining questions", break.
A6ReviewEOF ==
    /\ pc = "a6_review"
    /\ idx <= Len(order)
    /\ reviewed' = reviewed \cup {order[idx]}
    /\ idx' = Len(order) + 1
    /\ UNCHANGED <<runVars, toolVars>>
    /\ UNCHANGED <<mode, pc, form, llm_sent, llm_reply, session_answers>>
    /\ UNCHANGED <<fileVars, a7Vars>>
    /\ UNCHANGED <<skipped_list, known_answers, new_values, wrapped, order, prompted>>

\* The final answers are dumped to user_completed_answers.json (and the
\* still_skipped list to still_skipped.json) and the script exits: its
\* locals are gone, order remains as the key order of the file.  run_pipeline
\* goes on to step 7.
A6Write ==
    /\ pc = "a6_review"
    /\ idx > Len(order)
    /\ user_completed' = wrapped
    /\ uc_state' = "json"
    /\ pc' = "a7"
    /\ order' = order
    /\ skipped_list' = <<>>
    /\ known_answers' = EmptyMap
    /\ new_values' = EmptyMap
    /\ wrapped' = EmptyMap
    /\ prompted' = {}
    /\ reviewed' = {}
    /\ UNCHANGED <<runVars, toolVars>>
    /\ UNCHANGED <<mode, form, llm_sent, llm_reply, idx, session_answers>>
    /\ UNCHANGED <<filled_answers, skipped_fields, still_skipped, a7Vars>>

\* ------------------------------------------------------------------------
\* telegram_bot.py: the conversation after step 5
\* ------------------------------------------------------------------------
\* Rest of handle_a3_approval: no skipped fields -> fill at once, otherwise
\* the skipped fields become the questions of the session.
BotAfterA5 ==
    /\ pc = "bot_a5_done"
    /\ IF skipped_fields = <<>>
       THEN pc' = "a7"
       ELSE pc' = "bot_ask"
    /\ session_answers' = EmptyMap
    /\ idx' = 1
    /\ UNCHANGED <<runVars, toolVars>>
    /\ UNCHANGED <<mode, form, llm_sent, llm_reply>>
    /\ UNCHANGED <<fileVars, a6Vars, a7Vars>>

\* Texts the user may send as the answer to a question.
ChatAnswers == {"skip", "bob"}

\* handle_field_answer: the questions are skip records (no options key), so
\* any text but 'skip' is stored as typed.
HandleFieldAnswer ==
    /\ pc = "bot_ask"
    /\ idx <= Len(skipped_fields)
    /\ \E answer \in ChatAnswers :
          session_answers' = IF answer = "skip" THEN session_answers
                             ELSE Put(session_answers, skipped_fields[idx].id, StrV(answer))
    /\ prompted' = prompted \cup {skipped_fields[idx].id}
    /\ idx' = idx + 1
    /\ UNCHANGED <<runVars, toolVars>>
    /\ UNCHANGED <<mode, pc, form, llm_sent, llm_reply>>
    /\ UNCHANGED <<fileVars, a7Vars>>
    /\ UNCHANGED <<skipped_list, known_answers, new_values, wrapped, order, reviewed>>

\* The question text of the last question with the given id.
LastQuestionOf(questions, fid) ==
    LET hits == {i \in 1..Len(questions) : questions[i].id = fid}
    IN questions[CHOOSE i \in hits : \A j \in hits : j <= i].question

\* ask_next_question once every question was asked: the session's answers
\* are merged into filled_answers.json, and they alone are written to
\* user_completed_answers.json.
AskNextQuestionDone ==
    /\ pc = "bot_ask"
    /\ idx > Len(skipped_fields)
    /\ filled_answers' = Update(filled_answers, session_answers)
    /\ user_completed' = [fid \in DOMAIN session_answers |->
                            Bundle(LastQuestionOf(skipped_fields, fid), session_answers[fid])]
    /\ uc_state' = "json"
    /\ pc' = "bot_qa"
    /\ UNCHANGED <<runVars, toolVars>>
    /\ UNCHANGED <<mode, form, llm_sent, llm_reply, idx, session_answers>>
    /\ UNCHANGED <<skipped_fields, still_skipped, a6Vars, a7Vars>>

\* handle_qa_approval, approval: the fill pass is started.
HandleQAApprove ==
    /\ pc = "bot_qa"
    /\ pc' = "a7"
    /\ UNCHANGED <<runVars, toolVars>>
    /\ UNCHANGED <<mode, form, llm_sent, llm_reply, idx, session_answers>>
    /\ UNCHANGED <<fileVars, a6Vars, a7Vars>>

\* handle_qa_approval, a parsed modification request: filled_answers.json and
\* the session are updated; the same state waits for the next message.
HandleQAModify ==
    /\ pc = "bot_qa"
    /\ \E field_id \in DOMAIN filled_answers :
          /\ filled_answers' = Put(filled_answers, field_id, StrV("carol"))
          /\ session_answers' = IF field_id \in DOMAIN session_answers
                                THEN Put(session_answers, field_id, StrV("carol"))
                                ELSE session_answers
    /\ UNCHANGED <<runVars, toolVars>>
    /\ UNCHANGED <<mode, pc, form, llm_sent, llm_reply, idx>>
    /\ UNCHANGED <<skipped_fields, user_completed, uc_state, still_skipped>>
    /\ UNCHANGED <<a6Vars, a7Vars>>

\* ------------------------------------------------------------------------
\* a7_fill_form_resume.py main (step 7)
\* ------------------------------------------------------------------------
\* load_answers: the JSON object of user_completed_answers.json, or {} when
\* no answers file exists.
load_answers == IF uc_state = "json" THEN user_completed ELSE EmptyMap

\* Key order of the answers file.
LoadedOrder(m) ==
    LET asked == [i \in 1..Len(skipped_fields) |-> skipped_fields[i].id]
        rest == SelectSeq(asked, LAMBDA k : k \in DOMAIN m /\ ~HasField(k))
    IN IF mode = "cli" THEN order ELSE KeysInFormOrder(m) \o rest

A7Load ==
    /\ pc = "a7"
    /\ fill_answers' = load_answers
    /\ fill_order' = LoadedOrder(load_answers)
    /\ visited' = {}
    /\ written' = {}
    /\ idx' = 1
    /\ pc' = "a7_fill"
    /\ UNCHANGED <<runVars, toolVars>>
    /\ UNCHANGED <<mode, form, llm_sent, llm_reply, session_answers>>
    /\ UNCHANGED <<fileVars, a6Vars>>

\* One iteration of "for field_id, bundle in answers.items()": fill_one_field
\* writes the control, or leaves it (not located, option not found; every such
\* failure is swallowed inside the helper).
A7Fill ==
    /\ pc = "a7_fill"
    /\ idx <= Len(fill_order)
    /\ \E ok \in BOOLEAN :
          written' = IF ok THEN written \cup {fill_order[idx]} ELSE written
    /\ visited' = visited \cup {fill_order[idx]}
    /\ idx' = idx + 1
    /\ UNCHANGED <<runVars, toolVars>>
    /\ UNCHANGED <<mode, pc, form, llm_sent, llm_reply, session_answers>>
    /\ UNCHANGED <<fileVars, a6Vars, fill_answers, fill_order>>

\* safe_fill_text: locator.fill / locator.check time out outside every
\* try block; the exception leaves fill_one_field and main, the script dies.
A7FillRaises ==
    /\ pc = "a7_fill"
    /\ idx <= Len(fill_order)
    /\ pc' = "a7_crashed"
    /\ UNCHANGED <<runVars, toolVars>>
    /\ UNCHANGED <<mode, form, llm_sent, llm_reply, idx, session_answers>>
    /\ UNCHANGED <<fileVars, a6Vars, a7Vars>>

\* The loop is over: screenshot, then the approval gate.
A7LoopDone ==
    /\ pc = "a7_fill"
    /\ idx > Len(fill_order)
    /\ pc' = "a7_gate"
    /\ UNCHANGED <<runVars, toolVars>>
    /\ UNCHANGED <<mode, form, llm_sent, llm_reply, idx, session_answers>>
    /\ UNCHANGED <<fileVars, a6Vars, a7Vars>>

Next ==
    \/ RunEarlyStep
    \/ HandleA3Approval
    \/ RunFormExtractor
    \/ A5Send
    \/ A5Receive
    \/ A6Load
    \/ A6Ask
    \/ A6AskEOF
    \/ A6Merge
    \/ A6Review
    \/ A6ReviewEOF
    \/ A6Write
    \/ BotAfterA5
    \/ HandleFieldAnswer
    \/ AskNextQuestionDone
    \/ HandleQAApprove
    \/ HandleQAModify
    \/ A7Load
    \/ A7Fill
    \/ A7FillRaises
    \/ A7LoopDone

Spec == InitPipeline /\ [][Next]_vars

TypeOK == pc \in {"a1", "a2", "a3", "a3_approval", "a4", "a5", "a5_wait", "a6",
                  "a6_ask", "a6_review", "a7", "a7_fill", "a7_gate", "a5_crashed",
                  "a6_crashed", "a7_crashed",
                  "bot_a5_done", "bot_ask", "bot_qa", "failed", "ended"}

\* ------------------------------------------------------------------------
\* Properties of the script pipeline and of the bot
\* ------------------------------------------------------------------------
\* Every element of the value is a label of the field's option list.
WithinOptions(f, val) ==
    /\ val.t \in {"str", "list"}
    /\ SeqToSet(val.v) \subseteq SeqToSet(f.options)

OptionedIds == {form[i].id : i \in {j \in 1..Len(form) : form[j].options /= <<>>}}

PersonalIds == {form[i].id : i \in {j \in 1..Len(form) : is_personal(form[j].question)}}

\* C1: every answer recorded for a field with options, by the model pass, by
\* the interactive completion, by the final review or by the chat, and every
\* answer handed to the fill pass, consists of labels of that field's option
\* list.
C1_AnswersWithinOptions ==
    \A fid \in OptionedIds :
        LET f == FieldById(form, fid) IN
        /\ fid \in DOMAIN filled_answers => WithinOptions(f, filled_answers[fid])
        /\ fid \in DOMAIN new_values => WithinOptions(f, new_values[fid])
        /\ fid \in DOMAIN wrapped => WithinOptions(f, wrapped[fid].answer)
        /\ fid \in DOMAIN user_completed => WithinOptions(f, user_completed[fid].answer)
        /\ fid \in DOMAIN fill_answers => WithinOptions(f, fill_answers[fid].answer)

\* C3: when the completion loop of a6 is over, the merged map holds, for
\* every id of known_answers, the known value: the loop has asked for none of
\* these ids, so new_values carries none of them.
C3_CompletionMergeKeepsKnown ==
    (pc = "a6_review" /\ idx = 1) =>
        \A fid \in DOMAIN known_answers :
            /\ fid \in DOMAIN wrapped
            /\ wrapped[fid].answer = known_answers[fid]

\* The skip list names an id that already has an answer, the loop has
\* collected a new answer for another id, and the merge is done.
C3_Witness ==
    /\ pc = "a6_review"
    /\ idx = 1
    /\ \E i \in 1..Len(skipped_list) : skipped_list[i].id \in DOMAIN known_answers
    /\ new_values /= EmptyMap

\* C3 as stated: no step replaces the answer an id already has, neither in the
\* answers being finalised by a6 nor in filled_answers.json.
C3_NeverReplaced ==
    [][/\ \A fid \in (DOMAIN wrapped) \cap (DOMAIN wrapped') : wrapped'[fid] = wrapped[fid]
       /\ \A fid \in (DOMAIN filled_answers) \cap (DOMAIN filled_answers') :
              filled_answers'[fid] = filled_answers[fid]]_vars

\* C4: every id that has an answer in filled_answers.json has an answer in
\* the map the fill pass loaded.
C4_NoAnswerDropped ==
    pc \in {"a7_fill", "a7_gate", "a7_crashed"} =>
        DOMAIN filled_answers \subseteq DOMAIN fill_answers

C7_GateIsPostCheck ==
    pc \in {"a6", "bot_a5_done"} =>
        \A fid \in PersonalIds :
            /\ fid \in llm_sent
            /\ fid \notin DOMAIN filled_answers
            /\ \E i \in 1..Len(skipped_fields) :
                  skipped_fields[i].id = fid /\ skipped_fields[i].reason = ReasonPersonal

\* The model returned an answer for a personal/preference field and step 5
\* discarded it.
C7_Witness ==
    /\ pc = "a6"
    /\ \E fid \in PersonalIds : fid \in llm_reply.answered /\ fid \notin DOMAIN filled_answers

\* C7 as stated: a personal/preference field is never sent to the model.
C7_NoModelLookupForPersonal ==
    \A fid \in PersonalIds : fid \notin llm_sent

\* C8: the fill pass ends only after the loop has visited every entry of the
\* answers map.
C8_FillLoopVisitsAll ==
    pc \in {"a7_gate", "a7_crashed"} => SeqToSet(fill_order) \subseteq visited

\* C10: an empty or non-JSON reply of the model ends step 5 the way a reply
\* without answers does: outputs written, the run goes on.
C10_MalformedLikeUnknown ==
    llm_reply.kind \in {"empty", "text"} => pc /= "a5_crashed"

\* ------------------------------------------------------------------------
\* dedup_skipped_by_id applied to arbitrary skip lists
\* ------------------------------------------------------------------------
\* Skip records as validate_and_clip writes them: the gate's own record and
\* records carried over from the model, for two ids.
DedupRecs ==
    {[id |-> i, question |-> <<"q", i>>, reason |-> r] :
        i \in {"f_ctc", "f_notice"}, r \in {ReasonPersonal, ReasonNotInSources}}

DedupInputs == UNION {[1..n -> DedupRecs] : n \in 0..MaxSkipLen}

\* Every variable the run does not use keeps its start value.
IdleButSkipLists ==
    /\ mode = "cli"
    /\ form = <<>>
    /\ llm_sent = {}
    /\ llm_reply = [kind |-> "none", answered |-> {}]
    /\ filled_answers = EmptyMap
    /\ user_completed = EmptyMap
    /\ uc_state = "empty"
    /\ still_skipped = <<>>
    /\ known_answers = EmptyMap
    /\ new_values = EmptyMap
    /\ wrapped = EmptyMap
    /\ order = <<>>
    /\ idx = 0
    /\ prompted = {}
    /\ reviewed = {}
    /\ session_answers = EmptyMap
    /\ fill_answers = EmptyMap
    /\ fill_order = <<>>
    /\ visited = {}
    /\ written = {}

InitDedup ==
    /\ pc = "dedup"
    /\ skipped_fields \in DedupInputs
    /\ skipped_list = <<>>
    /\ IdleButSkipLists
    /\ RunIdle
    /\ ToolIdle

DedupStep ==
    /\ pc = "dedup"
    /\ skipped_list' = dedup_skipped_by_id(skipped_fields)
    /\ pc' = "deduped"
    /\ UNCHANGED <<runVars, toolVars>>
    /\ UNCHANGED <<mode, form, llm_sent, llm_reply, idx, session_answers>>
    /\ UNCHANGED <<fileVars, a7Vars>>
    /\ UNCHANGED <<known_answers, new_values, wrapped, order, prompted, reviewed>>

NextDedup == DedupStep

SpecDedup == InitDedup /\ [][NextDedup]_vars

\* C5: when the input holds, for one id, a record with reason
\* personal/preference and a record with another reason, the de-duplicated
\* list holds exactly one record for that id and it is the
\* personal/preference one, whichever of the two came first.
C5_PersonalWinsDedup ==
    pc = "deduped" =>
        \A i, j \in 1..Len(skipped_fields) :
            (/\ skipped_fields[i].id = skipped_fields[j].id
             /\ skipped_fields[i].reason = ReasonPersonal
             /\ skipped_fields[j].reason /= ReasonPersonal)
            => LET hits == {k \in 1..Len(skipped_list) :
                              skipped_list[k].id = skipped_fields[i].id}
               IN /\ Cardinality(hits) = 1
                  /\ \A k \in hits : skipped_list[k].reason = ReasonPersonal

\* The two-record case in the order in which the later record must replace
\* the one chosen first.
C5_Witness ==
    /\ pc = "deduped"
    /\ Len(skipped_fields) = 2
    /\ skipped_fields[1].id = skipped_fields[2].id
    /\ skipped_fields[1].reason /= ReasonPersonal
    /\ skipped_fields[2].reason = ReasonPersonal
    /\ Len(skipped_list) = 1
    /\ skipped_list[1] = skipped_fields[2]

\* ------------------------------------------------------------------------
\* app/: run_once and its helpers
\* ------------------------------------------------------------------------
\* FIELD_SYNONYMS in dictionary order, restricted to the keys first_name,
\* location and resume (the other known keys are looked up exactly like
\* these two).  A synonym is the sequence of its words; the last one of each
\* key is key.replace("_"," ").
FIELD_SYNONYMS ==
    << [key |-> "first_name", syns |-> << <<"first", "name">>, <<"given", "name">>,
                                         <<"forename">>, <<"first", "name">> >>],
       [key |-> "location",   syns |-> << <<"city">>, <<"current", "location">>,
                                         <<"address">>, <<"location">>, <<"location">> >>],
       [key |-> "resume",     syns |-> << <<"resume">>, <<"cv">>, <<"upload", "resume">>,
                                         <<"upload", "cv">>, <<"resume">> >>] >>

KNOWN_KEYS == {FIELD_SYNONYMS[i].key : i \in 1..Len(FIELD_SYNONYMS)} \ {"resume"}

\* sorted(KNOWN_KEYS)
KnownKeysSorted == <<"first_name", "location">>

NoKey == "<none>"

\* guess_field_key on the words of label, name, aria-label and placeholder:
\* the first key, in dictionary order, one of whose synonyms occurs in hay.
guess_field_key(hay) ==
    LET hits == {i \in 1..Len(FIELD_SYNONYMS) :
                    \E j \in 1..Len(FIELD_SYNONYMS[i].syns) :
                        HasPhrase(hay, FIELD_SYNONYMS[i].syns[j])}
    IN IF hay = <<>> \/ hits = {} THEN NoKey
       ELSE FIELD_SYNONYMS[CHOOSE i \in hits : \A j \in hits : i <= j].key

\* A field as collect_form_fields returns it (widget "input" throughout).
RunField(label, type, required) ==
    [label |-> label, type |-> type, required |-> required, key |-> guess_field_key(label)]

RFirst == RunField(<<"first", "name">>, "text", TRUE)
RLocation == RunField(<<"preferred", "location">>, "text", TRUE)
RCtc == RunField(<<"expected", "ctc">>, "text", TRUE)
RResume == RunField(<<"resume">>, "file", FALSE)

RunCatalogue == <<RFirst, RLocation, RCtc, RResume>>

RunForms == {[i \in 1..Len(ix) |-> RunCatalogue[ix[i]]] : ix \in IndexSeqs}

SplitWords(text) ==
    CASE text = "alice doe" -> <<"alice", "doe">>
      [] text = "" -> <<>>
      [] OTHER -> <<text>>

\* extract_contact for a profile with a name and a location (each possibly
\* missing) and nothing else.
extract_contact(profile) ==
    LET parts == SplitWords(profile.name)
    IN [full_name |-> profile.name,
        first_name |-> IF parts /= <<>> THEN parts[1] ELSE "",
        last_name |-> IF Len(parts) > 1 THEN parts[Len(parts)] ELSE "",
        location |-> profile.location]

Profiles == {[name |-> n, location |-> l] : n \in {"", "alice doe"}, l \in {"", "pune"}}

ContactGet(k) == IF k \in DOMAIN contact THEN contact[k] ELSE ""

\* Lines 56-60 of run_once: the profile's value for a known key.
ProfileValue(k) ==
    LET v == ContactGet(k)
        full == SplitWords(ContactGet("full_name"))
    IN IF k = "first_name" /\ v = "" /\ full /= <<>> THEN full[1]
       ELSE IF k = "last_name" /\ v = "" /\ full /= <<>>
       THEN (IF Len(full) > 1 THEN full[Len(full)] ELSE "")
       ELSE v

\* gemini_text: None (no API key, exception) or the stripped text.
NoneText == "<None>"
GeminiTexts == {NoneText, "", "unknown", "Unknown.", "alice"}

\* infer_with_llm on the model's text out: None ("") or the value.
infer_with_llm(has_resume, out) ==
    IF ~has_resume THEN ""
    ELSE IF out = NoneText \/ out = "" \/ Upper(out) = "UNKNOWN" THEN ""
    ELSE out

\* prompt_user_for: the stripped line, None ("") when it is empty.
prompt_user_for(line) == line

PromptLines == {"", "bob"}

\* yes_no: the default on an empty line, otherwise whether it is y / yes.
yes_no(ans, default) == IF ans = "" THEN default ELSE ans \in {"y", "yes"}

\* upload_resume_if_possible: the test on one field.
looks_like_resume(f) ==
    \/ f.type = "file"
    \/ HasPhrase(f.label, <<"resume">>)
    \/ HasPhrase(f.label, <<"cv">>)

\* [k for k in KNOWN_KEYS if k not in planned], sorted.
missing_known(planned) == SelectSeq(KnownKeysSorted, LAMBDA k : k \notin DOMAIN planned)

\* The statements of run_once in program order.
RunOnceSteps ==
    <<"open", "cover", "discover", "upload", "plan_profile", "plan_llm", "plan_prompt",
      "ask_unknown", "review", "fill", "recheck_ask", "recheck_fill", "submit_gate", "done">>

\* An order in which the first fill would come before the prompts for
\* unknown fields and before the review (not what the code does).
StepAfterFillFirst(step) ==
    IF step = "plan_prompt" THEN "fill"
    ELSE RunOnceSteps[1 + CHOOSE i \in 1..Len(RunOnceSteps) : RunOnceSteps[i] = step]

\* The statement that follows step in run_once.
StepAfter(step) ==
    RunOnceSteps[1 + CHOOSE i \in 1..Len(RunOnceSteps) : RunOnceSteps[i] = step]

\* Every variable of the script pipeline keeps its idle value.
PipeIdle ==
    /\ pc = "off"
    /\ skipped_fields = <<>>
    /\ skipped_list = <<>>
    /\ IdleButSkipLists

InitRunOnce ==
    /\ PipeIdle
    /\ ToolIdle
    /\ r_pc = "open"
    /\ r_fields = <<>>
    /\ \E profile \in Profiles : contact = extract_contact(profile)
    /\ resume_text \in BOOLEAN
    /\ planned_by_key = EmptyMap
    /\ planned_by_field = EmptyMap
    /\ answer_source = EmptyMap
    /\ r_todo = <<>>
    /\ remaining = <<>>
    /\ r_idx = 0
    /\ current = {}
    /\ page_writes = {}
    /\ llm_asked = {}
    /\ human_asked = {}
    /\ steps_done = {}

\* The step r_pc is over; the run goes to step next.
Advance(next) ==
    /\ r_pc' = next
    /\ steps_done' = steps_done \cup {r_pc}

Write(op, pos) == [op |-> op, pos |-> pos, after |-> steps_done]

\* page.goto: loaded, or timed out and the browser is closed.
ROpen ==
    /\ r_pc = "open"
    /\ \E loaded \in BOOLEAN :
          IF loaded THEN Advance(StepAfter(r_pc))
          ELSE r_pc' = "closed" /\ UNCHANGED steps_done
    /\ UNCHANGED <<r_fields, contact, resume_text, planned_by_key, planned_by_field,
                   answer_source, r_todo, remaining, r_idx, current, page_writes,
                   llm_asked, human_asked>>
    /\ UNCHANGED <<pipeVars, toolVars>>

\* "Approve this cover letter and proceed to filling the form?" (default no)
RCover ==
    /\ r_pc = "cover"
    /\ \E ans \in {"", "y"} :
          IF yes_no(ans, FALSE) THEN Advance(StepAfter(r_pc))
          ELSE r_pc' = "closed" /\ UNCHANGED steps_done
    /\ UNCHANGED <<r_fields, contact, resume_text, planned_by_key, planned_by_field,
                   answer_source, r_todo, remaining, r_idx, current, page_writes,
                   llm_asked, human_asked>>
    /\ UNCHANGED <<pipeVars, toolVars>>

\* fields = collect_form_fields(page)
RDiscover ==
    /\ r_pc = "discover"
    /\ \E fs \in RunForms : r_fields' = fs
    /\ Advance(StepAfter(r_pc))
    /\ UNCHANGED <<contact, resume_text, planned_by_key, planned_by_field,
                   answer_source, r_todo, remaining, r_idx, current, page_writes,
                   llm_asked, human_asked>>
    /\ UNCHANGED <<pipeVars, toolVars>>

\* upload_resume_if_possible(fields): set_input_files on every field that
\* looks like the resume (RESUME_PDF exists; a failure is swallowed).
RUpload ==
    /\ r_pc = "upload"
    /\ page_writes' = page_writes \cup
          {Write("upload", i) : i \in {j \in 1..Len(r_fields) : looks_like_resume(r_fields[j])}}
    /\ Advance(StepAfter(r_pc))
    /\ UNCHANGED <<r_fields, contact, resume_text, planned_by_key, planned_by_field,
                   answer_source, r_todo, remaining, r_idx, current,
                   llm_asked, human_asked>>
    /\ UNCHANGED <<pipeVars, toolVars>>

\* Keys of the form's fields the profile has a value for.
ProfileKeys ==
    {r_fields[i].key : i \in {j \in 1..Len(r_fields) :
        r_fields[j].key \in KNOWN_KEYS /\ ProfileValue(r_fields[j].key) /= ""}}

\* Lines 49-63: the known keys of the form's fields are planned from the
\* profile; missing_known is computed for the model loop.
RPlanProfile ==
    /\ r_pc = "plan_profile"
    /\ planned_by_key' = [k \in ProfileKeys |-> ProfileValue(k)]
    /\ answer_source' = [k \in ProfileKeys |-> "profile"]
    /\ r_todo' = IF resume_text THEN missing_known([k \in ProfileKeys |-> ProfileValue(k)])
                 ELSE <<>>
    /\ Advance(StepAfter(r_pc))
    /\ UNCHANGED <<r_fields, contact, resume_text, planned_by_field,
                   remaining, r_idx, current, page_writes, llm_asked, human_asked>>
    /\ UNCHANGED <<pipeVars, toolVars>>

\* One iteration of "for k in missing_known: guess = infer_with_llm(...)".
RPlanLLM ==
    /\ r_pc = "plan_llm"
    /\ r_todo /= <<>>
    /\ LET k == Head(r_todo) IN
       /\ \E out \in GeminiTexts :
             LET guess == infer_with_llm(resume_text, out) IN
             IF guess /= ""
             THEN /\ planned_by_key' = Put(planned_by_key, k, guess)
                  /\ answer_source' = Put(answer_source, k, "llm")
             ELSE UNCHANGED <<planned_by_key, answer_source>>
       /\ llm_asked' = llm_asked \cup {k}
    /\ r_todo' = Tail(r_todo)
    /\ UNCHANGED <<r_pc, steps_done, r_fields, contact, resume_text, planned_by_field,
                   remaining, r_idx, current, page_writes, human_asked>>
    /\ UNCHANGED <<pipeVars, toolVars>>

\* The model loop is over; missing_known is computed again (line 69).
RPlanLLMEnd ==
    /\ r_pc = "plan_llm"
    /\ r_todo = <<>>
    /\ r_todo' = missing_known(planned_by_key)
    /\ Advance(StepAfter(r_pc))
    /\ UNCHANGED <<r_fields, contact, resume_text, planned_by_key, planned_by_field,
                   answer_source, remaining, r_idx, current, page_writes,
                   llm_asked, human_asked>>
    /\ UNCHANGED <<pipeVars, toolVars>>

\* One iteration of "for k in missing_known: v = prompt_user_for(k, hint)".
RPlanPrompt ==
    /\ r_pc = "plan_prompt"
    /\ r_todo /= <<>>
    /\ LET k == Head(r_todo) IN
       /\ \E line \in PromptLines :
             LET v == prompt_user_for(line) IN
             IF v /= ""
             THEN /\ planned_by_key' = Put(planned_by_key, k, v)
                  /\ answer_source' = Put(answer_source, k, "human")
             ELSE UNCHANGED <<planned_by_key, answer_source>>
       /\ human_asked' = human_asked \cup {[kind |-> "key", key |-> k, pos |-> 0]}
    /\ r_todo' = Tail(r_todo)
    /\ UNCHANGED <<r_pc, steps_done, r_fields, contact, resume_text, planned_by_field,
                   remaining, r_idx, current, page_writes, llm_asked>>
    /\ UNCHANGED <<pipeVars, toolVars>>

RPlanPromptEnd ==
    /\ r_pc = "plan_prompt"
    /\ r_todo = <<>>
    /\ r_idx' = 1
    /\ Advance(StepAfter(r_pc))
    /\ UNCHANGED <<r_fields, contact, resume_text, planned_by_key, planned_by_field,
                   answer_source, r_todo, remaining, current, page_writes,
                   llm_asked, human_asked>>
    /\ UNCHANGED <<pipeVars, toolVars>>

\* ask_for_field of run_once for an input field: a required one is prompted
\* for; the answer, if any, is planned for the field.
RunAskField(i) ==
    IF r_fields[i].required
    THEN \E line \in PromptLines :
            /\ planned_by_field' = IF prompt_user_for(line) /= ""
                                   THEN Put(planned_by_field, i, StrV(prompt_user_for(line)))
                                   ELSE planned_by_field
            /\ human_asked' = human_asked \cup
                                 {[kind |-> "field", key |-> r_fields[i].key, pos |-> i]}
    ELSE UNCHANGED <<planned_by_field, human_asked>>

\* One iteration of the loop of lines 118-124 over the fields.
RAskUnknown ==
    /\ r_pc = "ask_unknown"
    /\ r_idx <= Len(r_fields)
    /\ IF r_fields[r_idx].key \in KNOWN_KEYS \/ r_idx \in current
       THEN UNCHANGED <<planned_by_field, human_asked>>
       ELSE RunAskField(r_idx)
    /\ r_idx' = r_idx + 1
    /\ UNCHANGED <<r_pc, steps_done, r_fields, contact, resume_text, planned_by_key,
                   answer_source, r_todo, remaining, current, page_writes, llm_asked>>
    /\ UNCHANGED <<pipeVars, toolVars>>

RAskUnknownEnd ==
    /\ r_pc = "ask_unknown"
    /\ r_idx > Len(r_fields)
    /\ Advance(StepAfter(r_pc))
    /\ UNCHANGED <<r_fields, contact, resume_text, planned_by_key, planned_by_field,
                   answer_source, r_todo, remaining, r_idx, current, page_writes,
                   llm_asked, human_asked>>
    /\ UNCHANGED <<pipeVars, toolVars>>

\* "Proceed to fill the form now?" (default yes)
RReview ==
    /\ r_pc = "review"
    /\ \E ans \in {"", "n"} :
          IF yes_no(ans, TRUE) THEN Advance(StepAfter(r_pc))
          ELSE r_pc' = "closed" /\ UNCHANGED steps_done
    /\ r_idx' = 1
    /\ UNCHANGED <<r_fields, contact, resume_text, planned_by_key, planned_by_field,
                   answer_source, r_todo, remaining, current, page_writes,
                   llm_asked, human_asked>>
    /\ UNCHANGED <<pipeVars, toolVars>>

\* The field at position i has a planned value (lines 169-172, 191-194).
HasPlan(i) ==
    \/ r_fields[i].key \in KNOWN_KEYS /\ r_fields[i].key \in DOMAIN planned_by_key
    \/ i \in DOMAIN planned_by_field

\* fill_value_into_field on field i: the value is typed, or the failure is
\* swallowed and the field stays blank.
RunFillField(i) ==
    IF HasPlan(i)
    THEN /\ page_writes' = page_writes \cup {Write("fill", i)}
         /\ \E sticks \in BOOLEAN : current' = IF sticks THEN current \cup {i} ELSE current
    ELSE UNCHANGED <<page_writes, current>>

\* One iteration of the fill loop.
RFill ==
    /\ r_pc = "fill"
    /\ r_idx <= Len(r_fields)
    /\ RunFillField(r_idx)
    /\ r_idx' = r_idx + 1
    /\ UNCHANGED <<r_pc, steps_done, r_fields, contact, resume_text, planned_by_key,
                   planned_by_field, answer_source, r_todo, remaining,
                   llm_asked, human_asked>>
    /\ UNCHANGED <<pipeVars, toolVars>>

\* Lines 175-184: the required fields that are still blank.
RequiredBlank ==
    SelectSeq([i \in 1..Len(r_fields) |-> i],
              LAMBDA i : r_fields[i].required /\ i \notin current)

\* The fill loop is over; "if remaining:" decides whether the re-check runs.
RFillEnd ==
    /\ r_pc = "fill"
    /\ r_idx > Len(r_fields)
    /\ remaining' = RequiredBlank
    /\ r_idx' = 1
    /\ IF RequiredBlank /= <<>>
       THEN Advance(StepAfter(r_pc))
       ELSE /\ r_pc' = "submit_gate"
            /\ steps_done' = steps_done \cup {"fill", "recheck_ask", "recheck_fill"}
    /\ UNCHANGED <<r_fields, contact, resume_text, planned_by_key, planned_by_field,
                   answer_source, r_todo, current, page_writes, llm_asked, human_asked>>
    /\ UNCHANGED <<pipeVars, toolVars>>

\* "for f in remaining: ask_for_field(f)"
RRecheckAsk ==
    /\ r_pc = "recheck_ask"
    /\ r_idx <= Len(remaining)
    /\ RunAskField(remaining[r_idx])
    /\ r_idx' = r_idx + 1
    /\ UNCHANGED <<r_pc, steps_done, r_fields, contact, resume_text, planned_by_key,
                   answer_source, r_todo, remaining, current, page_writes, llm_asked>>
    /\ UNCHANGED <<pipeVars, toolVars>>

RRecheckAskEnd ==
    /\ r_pc = "recheck_ask"
    /\ r_idx > Len(remaining)
    /\ r_idx' = 1
    /\ Advance(StepAfter(r_pc))
    /\ UNCHANGED <<r_fields, contact, resume_text, planned_by_key, planned_by_field,
                   answer_source, r_todo, remaining, current, page_writes,
                   llm_asked, human_asked>>
    /\ UNCHANGED <<pipeVars, toolVars>>

\* "for f in remaining: fill_value_into_field(...)"
RRecheckFill ==
    /\ r_pc = "recheck_fill"
    /\ r_idx <= Len(remaining)
    /\ RunFillField(remaining[r_idx])
    /\ r_idx' = r_idx + 1
    /\ UNCHANGED <<r_pc, steps_done, r_fields, contact, resume_text, planned_by_key,
                   planned_by_field, answer_source, r_todo, remaining,
                   llm_asked, human_asked>>
    /\ UNCHANGED <<pipeVars, toolVars>>

RRecheckFillEnd ==
    /\ r_pc = "recheck_fill"
    /\ r_idx > Len(remaining)
    /\ Advance(StepAfter(r_pc))
    /\ UNCHANGED <<r_fields, contact, resume_text, planned_by_key, planned_by_field,
                   answer_source, r_todo, remaining, r_idx, current, page_writes,
                   llm_asked, human_asked>>
    /\ UNCHANGED <<pipeVars, toolVars>>

\* "Ready to submit the application?" (default yes), then click_submit.
RSubmitGate ==
    /\ r_pc = "submit_gate"
    /\ \E ans \in {"", "n"} :
          IF yes_no(ans, TRUE) THEN Advance(StepAfter(r_pc))
          ELSE r_pc' = "closed" /\ UNCHANGED steps_done
    /\ UNCHANGED <<r_fields, contact, resume_text, planned_by_key, planned_by_field,
                   answer_source, r_todo, remaining, r_idx, current, page_writes,
                   llm_asked, human_asked>>
    /\ UNCHANGED <<pipeVars, toolVars>>

NextRunOnce ==
    \/ ROpen
    \/ RCover
    \/ RDiscover
    \/ RUpload
    \/ RPlanProfile
    \/ RPlanLLM
    \/ RPlanLLMEnd
    \/ RPlanPrompt
    \/ RPlanPromptEnd
    \/ RAskUnknown
    \/ RAskUnknownEnd
    \/ RReview
    \/ RFill
    \/ RFillEnd
    \/ RRecheckAsk
    \/ RRecheckAskEnd
    \/ RRecheckFill
    \/ RRecheckFillEnd
    \/ RSubmitGate

SpecRunOnce == InitRunOnce /\ [][NextRunOnce]_vars

\* ------------------------------------------------------------------------
\* Properties of run_once
\* ------------------------------------------------------------------------
\* C2: no field whose label matches the personal/preference patterns has its
\* value planned from the profile or from the model.
C2_PersonalNeverAutoAnswered ==
    \A i \in 1..Len(r_fields) :
        is_personal(r_fields[i].label) =>
            ~(/\ r_fields[i].key \in DOMAIN answer_source
              /\ answer_source[r_fields[i].key] \in {"profile", "llm"})

PlanningSteps == {"plan_profile", "plan_llm", "plan_prompt", "ask_unknown", "review"}

\* C9: every write into the page comes after discovery; every value filled
\* into a field comes after the planning steps and the review as well.  (The
\* resume upload comes right after discovery, before anything is planned.)
C9_WritesFollowDiscovery ==
    \A w \in page_writes :
        /\ "discover" \in w.after
        /\ w.op = "fill" => PlanningSteps \subseteq w.after

\* A run that uploaded the resume before planning and filled a field after it.
C9_Witness ==
    /\ \E w \in page_writes : w.op = "upload" /\ w.after \cap PlanningSteps = {}
    /\ \E w \in page_writes : w.op = "fill" /\ PlanningSteps \subseteq w.after

\* C9 as stated: no write, fill or upload, before discovery and resolution
\* are complete.
C9_NoWriteBeforeResolution ==
    \A w \in page_writes : ({"discover"} \cup PlanningSteps) \subseteq w.after

\* ------------------------------------------------------------------------
\* Character strings (Chooese_from_user.py, app/prompts.py)
\* A string is the sequence of its characters.
\* ------------------------------------------------------------------------
\* Code-point order of the characters that occur; Ord gives the rank.
CharOrder ==
    <<" ", ",", "-", ".", "0", "1", "2", "3", "4", "5", "6", "7", "8", "9", "=", ">",
      "A", "B", "C", "D", "E", "F", "G", "H", "I", "J", "K", "L", "M", "N", "O", "P", "Q",
      "R", "S", "T", "U", "V", "W", "X", "Y", "Z", "_",
      "a", "b", "c", "d", "e", "f", "g", "h", "i", "j", "k", "l", "m", "n", "o", "p", "q",
      "r", "s", "t", "u", "v", "w", "x", "y", "z">>

Ord(c) == CHOOSE i \in 1..Len(CharOrder) : CharOrder[i] = c

Digits == <<"0", "1", "2", "3", "4", "5", "6", "7", "8", "9">>

IsDigitCh(c) == \E i \in 1..Len(Digits) : Digits[i] = c

DigitVal(c) == (CHOOSE i \in 1..Len(Digits) : Digits[i] = c) - 1

\* str.lower() on one character: 'A'..'Z' are 26 ranks below 'a'..'z'.
LowerCh(c) ==
    IF Ord(c) >= Ord("A") /\ Ord(c) <= Ord("Z") THEN CharOrder[Ord(c) - Ord("A") + Ord("a")] ELSE c

RECURSIVE lower(_)
lower(s) == IF s = <<>> THEN <<>> ELSE <<LowerCh(Head(s))>> \o lower(Tail(s))

\* The element of a one-element set.
The(S) == CHOOSE x \in S : TRUE

\* str.strip() for blanks.
RECURSIVE strip(_)
strip(s) ==
    IF s = <<>> THEN s
    ELSE IF Head(s) = " " THEN strip(Tail(s))
    ELSE IF s[Len(s)] = " " THEN strip(SubSeq(s, 1, Len(s) - 1))
    ELSE s

\* s[i:] starts with lit.
StartsAt(s, i, lit) ==
    /\ i >= 1
    /\ i + Len(lit) - 1 <= Len(s)
    /\ \A k \in 1..Len(lit) : s[i + k - 1] = lit[k]

\* lit in s
Contains(s, lit) == \E i \in 1..(Len(s) + 1) : StartsAt(s, i, lit)

\* str.isdigit()
isdigit(s) == s /= <<>> /\ \A i \in 1..Len(s) : IsDigitCh(s[i])

\* int(s) for a string of digits.
RECURSIVE int(_)
int(s) == IF s = <<>> THEN 0 ELSE 10 * int(SubSeq(s, 1, Len(s) - 1)) + DigitVal(s[Len(s)])

\* Lexicographic order of str.
RECURSIVE StrLess(_, _)
StrLess(a, b) ==
    IF b = <<>> THEN FALSE
    ELSE IF a = <<>> THEN TRUE
    ELSE IF Head(a) /= Head(b) THEN Ord(Head(a)) < Ord(Head(b))
    ELSE StrLess(Tail(a), Tail(b))

\* Position after the blanks that start at i (regex \s*).
RECURSIVE SkipWs(_, _)
SkipWs(s, i) == IF i <= Len(s) /\ s[i] = " " THEN SkipWs(s, i + 1) ELSE i

\* Position after the digits that start at i (regex \d+ when it is > i).
RECURSIVE DigitsEnd(_, _)
DigitsEnd(s, i) == IF i <= Len(s) /\ IsDigitCh(s[i]) THEN DigitsEnd(s, i + 1) ELSE i

\* Position after the number \d+(?:\.\d+)? that starts at i; i when none does.
NumEnd(s, i) ==
    LET e == DigitsEnd(s, i) IN
    IF e = i THEN i
    ELSE IF e <= Len(s) /\ s[e] = "." /\ DigitsEnd(s, e + 1) > e + 1
    THEN DigitsEnd(s, e + 1)
    ELSE e

\* float() of the number text s[i:e], in thousandths (exact up to three
\* fraction digits).
Milli(s, i, e) ==
    LET d == DigitsEnd(s, i)
        frac == IF d < e THEN SubSeq(s, d + 1, e - 1) ELSE <<>>
        pad == SubSeq(frac \o <<"0", "0", "0">>, 1, 3)
    IN 1000 * int(SubSeq(s, i, d - 1)) + int(pad)

\* ------------------------------------------------------------------------
\* Chooese_from_user.py: durations are kept in thousandths of a month
\* ------------------------------------------------------------------------
NoMonths == [ok |-> FALSE, m |-> 0]

\* parse_months_free_text, s being raw.lower().strip()
ParseMonths(s) ==
    LET starts == {i \in 1..Len(s) : IsDigitCh(s[i])}
    IN IF s = <<>> THEN NoMonths
       ELSE IF \/ Contains(s, <<"f", "r", "e", "s", "h", "e", "r">>)
               \/ Contains(s, <<"n", "o", " ", "e", "x", "p">>)
               \/ Contains(s, <<"0", " ", "e", "x", "p">>)
               \/ Contains(s, <<"z", "e", "r", "o">>)
       THEN [ok |-> TRUE, m |-> 0]
       ELSE IF starts = {} THEN NoMonths
       ELSE LET i == CHOOSE x \in starts : \A y \in starts : x <= y
                n == Milli(s, i, NumEnd(s, i))
            IN IF Contains(s, <<"y", "e", "a", "r">>) \/ Contains(s, <<"y", "r">>)
               THEN [ok |-> TRUE, m |-> n * 12]
               ELSE [ok |-> TRUE, m |-> n]

parse_months_free_text(raw) == The({ParseMonths(s) : s \in {strip(lower(raw))}})

\* The unit (month|year) that starts at i, or <<>>.
UnitAt(s, i) ==
    IF StartsAt(s, i, <<"m", "o", "n", "t", "h">>) THEN <<"m", "o", "n", "t", "h">>
    ELSE IF StartsAt(s, i, <<"y", "e", "a", "r">>) THEN <<"y", "e", "a", "r">>
    ELSE <<>>

\* n * (12 if "year" in unit else 1)
InMonths(n, unit) == IF unit = <<"y", "e", "a", "r">> THEN 12 * n ELSE n

\* (\d+(?:\.\d+)?)\s*(month|year) matches at i.
NumUnitAt(s, i) == NumEnd(s, i) > i /\ UnitAt(s, SkipWs(s, NumEnd(s, i))) /= <<>>

\* The number of a match of NumUnitAt at i, converted to months.
NumUnitMonths(s, i) ==
    InMonths(Milli(s, i, NumEnd(s, i)), UnitAt(s, SkipWs(s, NumEnd(s, i))))

\* Position after a match of NumUnitAt at i.
NumUnitEnd(s, i) ==
    LET u == SkipWs(s, NumEnd(s, i)) IN u + Len(UnitAt(s, u))

\* Largest element of a non-empty set of numbers, smallest likewise.
MaxOf(S) == CHOOSE x \in S : \A y \in S : y <= x

MinOf(S) == CHOOSE x \in S : \A y \in S : x <= y

\* less\s+than\s+(number)\s*(month|year): where the number starts when the
\* pattern matches at p, else 0.
LessThanAt(t, p) ==
    LET q1 == p + 4
        q2 == SkipWs(t, q1)
        q3 == q2 + 4
        q4 == SkipWs(t, q3)
    IN IF /\ StartsAt(t, p, <<"l", "e", "s", "s">>)
          /\ q2 > q1
          /\ StartsAt(t, q2, <<"t", "h", "a", "n">>)
          /\ q4 > q3
          /\ NumUnitAt(t, q4)
       THEN q4 ELSE 0

\* (over|more than|>=)\s*(number)\s*(month|year): where the number starts
\* when the pattern matches at p, else 0.
OverAt(t, p) ==
    LET len == IF StartsAt(t, p, <<"o", "v", "e", "r">>) THEN 4
               ELSE IF StartsAt(t, p, <<"m", "o", "r", "e", " ", "t", "h", "a", "n">>) THEN 9
               ELSE IF StartsAt(t, p, <<">", "=">>) THEN 2
               ELSE 0
        q == SkipWs(t, p + len)
    IN IF len > 0 /\ NumUnitAt(t, q) THEN q ELSE 0

\* .{0,10} is greedy: the skips k for which lit-free text of k characters
\* can be followed by the rest of the pattern.
Skips == 0..10

\* (number)\s*(unit).{0,10}to.{0,10}(number)\s*(unit) at p: the start of the
\* second number when the pattern matches at p, else 0.  Both gaps take as
\* many characters as the rest of the pattern allows.
ToRangeAt(t, p) ==
    IF ~NumUnitAt(t, p) THEN 0
    ELSE LET e == NumUnitEnd(t, p)
             second(k1) == {k2 \in Skips : NumUnitAt(t, e + k1 + 2 + k2)}
             first == {k1 \in Skips : StartsAt(t, e + k1, <<"t", "o">>) /\ second(k1) /= {}}
         IN IF first = {} THEN 0
            ELSE LET k1 == MaxOf(first) IN e + k1 + 2 + MaxOf(second(k1))

NoRange == [ok |-> FALSE, lo |-> 0, hi |-> 0, inf |-> FALSE]

Range(lo, hi) == [ok |-> TRUE, lo |-> lo, hi |-> hi, inf |-> FALSE]

\* months_range_from_label, t being label.lower().strip(): (lo, hi) in
\* thousandths of a month; inf marks hi = math.inf.
RangeOfText(t) ==
    LET pos == 1..Len(t)
        less == {p \in pos : LessThanAt(t, p) > 0}
        to == {p \in pos : ToRangeAt(t, p) > 0}
        over == {p \in pos : OverAt(t, p) > 0}
    IN IF less /= {}
       THEN Range(0, NumUnitMonths(t, LessThanAt(t, MinOf(less))) - 1)
       ELSE IF to /= {}
       THEN LET p == MinOf(to)
                a == NumUnitMonths(t, p)
                b == NumUnitMonths(t, ToRangeAt(t, p))
            IN IF b < a THEN Range(b, a) ELSE Range(a, b)
       ELSE IF over /= {}
       THEN [ok |-> TRUE, lo |-> NumUnitMonths(t, OverAt(t, MinOf(over))) + 1,
             hi |-> 0, inf |-> TRUE]
       ELSE IF Contains(t, <<"f", "r", "e", "s", "h", "e", "r">>) THEN Range(0, 0)
       ELSE NoRange

months_range_from_label(label) == The({RangeOfText(t) : t \in {strip(lower(label))}})

\* ------------------------------------------------------------------------
\* difflib.get_close_matches as choose_from_user calls it (n=1, cutoff=0.45)
\* ------------------------------------------------------------------------
\* Length of the common prefix of a[i..ahi] and b[j..bhi].
RECURSIVE CommonLen(_, _, _, _, _, _)
CommonLen(a, i, ahi, b, j, bhi) ==
    IF i > ahi \/ j > bhi \/ a[i] /= b[j] THEN 0
    ELSE 1 + CommonLen(a, i + 1, ahi, b, j + 1, bhi)

\* SequenceMatcher.find_longest_match: the longest block, the earliest in a
\* and then the earliest in b among the longest.
find_longest_match(a, alo, ahi, b, blo, bhi) ==
    LET blocks == {[i |-> p[1], j |-> p[2], k |-> CommonLen(a, p[1], ahi, b, p[2], bhi)] :
                      p \in (alo..ahi) \X (blo..bhi)}
        Before(x, y) == x.k > y.k \/ (x.k = y.k /\ (x.i < y.i \/ (x.i = y.i /\ x.j <= y.j)))
    IN IF \A x \in blocks : x.k = 0 THEN [i |-> 0, j |-> 0, k |-> 0]
       ELSE CHOOSE x \in blocks : \A y \in blocks : Before(x, y)

\* Sum of the sizes of SequenceMatcher.get_matching_blocks: the longest
\* block, then the blocks to its left and to its right.
RECURSIVE MatchCount(_, _, _, _, _, _)
MatchCount(a, alo, ahi, b, blo, bhi) ==
    CHOOSE n \in {IF m.k = 0 THEN 0
                  ELSE m.k + MatchCount(a, alo, m.i - 1, b, blo, m.j - 1)
                           + MatchCount(a, m.i + m.k, ahi, b, m.j + m.k, bhi) :
                  m \in {find_longest_match(a, alo, ahi, b, blo, bhi)}} : TRUE

\* SequenceMatcher(None, a, b).ratio() as the fraction num/den.
ratio(a, b) ==
    IF Len(a) + Len(b) = 0 THEN [num |-> 1, den |-> 1]
    ELSE [num |-> 2 * MatchCount(a, 1, Len(a), b, 1, Len(b)), den |-> Len(a) + Len(b)]

\* (score, x) tuples compare by score, then by the string.
ScoredLess(r1, x1, r2, x2) ==
    \/ r1.num * r2.den < r2.num * r1.den
    \/ r1.num * r2.den = r2.num * r1.den /\ StrLess(x1, x2)

\* The ratio of every label against the word, in list order.
RECURSIVE Ratios(_, _)
Ratios(labels, word) ==
    IF labels = <<>> THEN <<>>
    ELSE <<ratio(Head(labels), word)>> \o Ratios(Tail(labels), word)

\* The largest (score, label) among the labels whose ratio r[i] passes the
\* cutoff, as a list of at most one label.
ClosestOf(labels, r) ==
    LET close == {i \in 1..Len(labels) : 100 * r[i].num >= 45 * r[i].den}
    IN IF close = {} THEN <<>>
       ELSE LET top == CHOOSE i \in close : \A k \in close :
                           ~ScoredLess(r[i], labels[i], r[k], labels[k])
            IN <<labels[top]>>

\* get_close_matches(word, labels, n=1, cutoff=0.45)
get_close_matches(word, labels) == The({ClosestOf(labels, r) : r \in {Ratios(labels, word)}})

\* ------------------------------------------------------------------------
\* choose_from_user and prompt_user_choice
\* ------------------------------------------------------------------------
YES == {<<"y", "e", "s">>, <<"y">>, <<"t", "r", "u", "e">>, <<"o", "k">>,
        <<"o", "k", "a", "y">>, <<"s", "u", "r", "e">>}

NO == {<<"n", "o">>, <<"n">>, <<"f", "a", "l", "s", "e">>}

NoChoice == [ok |-> FALSE, v |-> <<>>]

Chosen(v) == [ok |-> TRUE, v |-> v]

\* The first option of the list that satisfies P, as the for loops return it.
FirstWhere(options, P(_)) ==
    LET hits == {i \in 1..Len(options) : P(options[i])} IN
    IF hits = {} THEN NoChoice ELSE Chosen(options[MinOf(hits)].v)

\* d of step b: min(abs(months-lo), abs(months-hi)) if hi < math.inf else
\* max(0, months-lo).
BucketDistance(r, months) ==
    IF r.inf THEN (IF months - r.lo > 0 THEN months - r.lo ELSE 0)
    ELSE LET dlo == IF months >= r.lo THEN months - r.lo ELSE r.lo - months
             dhi == IF months >= r.hi THEN months - r.hi ELSE r.hi - months
         IN IF dlo <= dhi THEN dlo ELSE dhi

\* A test that would find no range holding the duration (not what the code does).
InRangeNever(r, months) == FALSE

\* lo <= months <= hi
InRange(r, months) == r.lo <= months /\ (r.inf \/ months <= r.hi)

\* months_range_from_label of every label, in list order.
RECURSIVE RangesOf(_)
RangesOf(options) ==
    IF options = <<>> THEN <<>>
    ELSE <<months_range_from_label(Head(options).l)>> \o RangesOf(Tail(options))

\* The loop over the options, r[i] being the range of option i: the first
\* option whose range holds months; else the first of the smallest d.
BucketOf(options, r, months) ==
    LET ranged == {i \in 1..Len(options) : r[i].ok}
        holding == {i \in ranged : InRange(r[i], months)}
        nearest == {i \in ranged : \A k \in ranged :
                       BucketDistance(r[i], months) <= BucketDistance(r[k], months)}
    IN IF holding /= {} THEN Chosen(options[MinOf(holding)].v)
       ELSE IF ranged /= {} THEN Chosen(options[MinOf(nearest)].v)
       ELSE NoChoice

Bucket(options, months) == The({BucketOf(options, r, months) : r \in {RangesOf(options)}})

\* Option lists as open_menu_and_get_options returns them: (value, label).
\* Less than 6 months / 6 months to 1 year / Over 1 year
TenureOptions ==
    <<[v |-> <<"l", "t", "6">>,
       l |-> <<"L", "e", "s", "s", " ", "t", "h", "a", "n", " ", "6", " ", "m", "o", "n", "t", "h", "s">>],
      [v |-> <<"m", "i", "d">>,
       l |-> <<"6", " ", "m", "o", "n", "t", "h", "s", " ", "t", "o", " ", "1", " ", "y", "e", "a", "r">>],
      [v |-> <<"g", "t", "1">>,
       l |-> <<"O", "v", "e", "r", " ", "1", " ", "y", "e", "a", "r">>]>>

\* 0-1 years / 1-3 years / 3-5 years, value = label
YearsOptions ==
    <<[v |-> <<"0", "-", "1", " ", "y", "e", "a", "r", "s">>,
       l |-> <<"0", "-", "1", " ", "y", "e", "a", "r", "s">>],
      [v |-> <<"1", "-", "3", " ", "y", "e", "a", "r", "s">>,
       l |-> <<"1", "-", "3", " ", "y", "e", "a", "r", "s">>],
      [v |-> <<"3", "-", "5", " ", "y", "e", "a", "r", "s">>,
       l |-> <<"3", "-", "5", " ", "y", "e", "a", "r", "s">>]>>

\* Less than 1 year / 1 year
ExactOptions ==
    <<[v |-> <<"l", "t", "1">>,
       l |-> <<"L", "e", "s", "s", " ", "t", "h", "a", "n", " ", "1", " ", "y", "e", "a", "r">>],
      [v |-> <<"1", "y">>,
       l |-> <<"1", " ", "y", "e", "a", "r">>]>>

\* 6 months to 1 year / Over 2 years
GapOptions ==
    <<[v |-> <<"m", "i", "d">>,
       l |-> <<"6", " ", "m", "o", "n", "t", "h", "s", " ", "t", "o", " ", "1", " ", "y", "e", "a", "r">>],
      [v |-> <<"g", "t", "2">>,
       l |-> <<"O", "v", "e", "r", " ", "2", " ", "y", "e", "a", "r", "s">>]>>

\* Bangalore, India / Bangalore Rural
CityOptions ==
    <<[v |-> <<"b", "l", "r">>,
       l |-> <<"B", "a", "n", "g", "a", "l", "o", "r", "e", ",", " ", "I", "n", "d", "i", "a">>],
      [v |-> <<"r", "u", "r", "a", "l">>,
       l |-> <<"B", "a", "n", "g", "a", "l", "o", "r", "e", " ", "R", "u", "r", "a", "l">>]>>

\* Yes / No
YesNoOptions ==
    <<[v |-> <<"1">>,
       l |-> <<"Y", "e", "s">>],
      [v |-> <<"0">>,
       l |-> <<"N", "o">>]>>

\* 3 / 2 / 1, value = label
CountOptions ==
    <<[v |-> <<"3">>,
       l |-> <<"3">>],
      [v |-> <<"2">>,
       l |-> <<"2">>],
      [v |-> <<"1">>,
       l |-> <<"1">>]>>

\* 6 months to 12 years / 1.5 year to 2.5 years
LongOptions ==
    <<[v |-> <<"a">>,
       l |-> <<"6", " ", "m", "o", "n", "t", "h", "s", " ", "t", "o", " ", "1", "2", " ", "y", "e", "a", "r", "s">>],
      [v |-> <<"b">>,
       l |-> <<"1", ".", "5", " ", "y", "e", "a", "r", " ", "t", "o", " ", "2", ".", "5", " ", "y", "e", "a", "r", "s">>]>>

\* The lists offered: every non-empty prefix, up to MaxOptions options, of
\* the lists above.
OptionLists ==
    LET lists == {TenureOptions, YearsOptions, ExactOptions, GapOptions,
                  CityOptions, YesNoOptions, CountOptions, LongOptions}
    IN {SubSeq(L, 1, n) : <<L, n>> \in {p \in lists \X (1..MaxOptions) : p[2] <= Len(p[1])}}

\* Lines typed at the prompt, stripped: '8 months', 'fresher', '3 years', '2 years', '1 year', '3 months', 'Bangalore', 'bangalore rural',
\* 'yes', '2', '3', 'mid', 'India', 'RURAL', '1.5 years'.
TypedAnswers ==
    {<<"8", " ", "m", "o", "n", "t", "h", "s">>,
     <<"f", "r", "e", "s", "h", "e", "r">>,
     <<"3", " ", "y", "e", "a", "r", "s">>,
     <<"2", " ", "y", "e", "a", "r", "s">>,
     <<"1", " ", "y", "e", "a", "r">>,
     <<"3", " ", "m", "o", "n", "t", "h", "s">>,
     <<"B", "a", "n", "g", "a", "l", "o", "r", "e">>,
     <<"b", "a", "n", "g", "a", "l", "o", "r", "e", " ", "r", "u", "r", "a", "l">>,
     <<"y", "e", "s">>,
     <<"2">>,
     <<"3">>,
     <<"m", "i", "d">>,
     <<"I", "n", "d", "i", "a">>,
     <<"R", "U", "R", "A", "L">>,
     <<"1", ".", "5", " ", "y", "e", "a", "r", "s">>}

\* choose_from_user after the line ans was read: option number, yes/no,
\* month bucket, fuzzy label, unique substring, in this order.
choose_from_user(options, ans) ==
    LET low == lower(ans)
        yn == IF low \in YES THEN <<"y", "e", "s">> ELSE <<"n", "o">>
        labels == [i \in 1..Len(options) |-> options[i].l]
        a == IF low \in YES \cup NO
             THEN FirstWhere(options, LAMBDA o : lower(o.l) = yn) ELSE NoChoice
        months == parse_months_free_text(ans)
        b == IF months.ok THEN Bucket(options, months.m) ELSE NoChoice
        best == get_close_matches(ans, labels)
        c == IF best /= <<>>
             THEN FirstWhere(options, LAMBDA o : o.l = best[1]) ELSE NoChoice
        matches == {i \in 1..Len(options) : Contains(lower(options[i].l), low)}
    IN IF isdigit(ans) /\ 1 <= int(ans) /\ int(ans) <= Len(options)
       THEN [ok |-> TRUE, v |-> options[int(ans)].v, step |-> "number"]
       ELSE IF a.ok THEN [ok |-> TRUE, v |-> a.v, step |-> "yes/no"]
       ELSE IF b.ok THEN [ok |-> TRUE, v |-> b.v, step |-> "bucket"]
       ELSE IF c.ok THEN [ok |-> TRUE, v |-> c.v, step |-> "fuzzy"]
       ELSE IF Cardinality(matches) = 1
       THEN [ok |-> TRUE, v |-> options[MinOf(matches)].v, step |-> "substring"]
       ELSE [ok |-> FALSE, v |-> <<>>, step |-> "none"]

\* One round of the while loop of prompt_user_choice on the line ans:
\* return a value, return None, or print a message and ask again.
prompt_user_choice(options, ans) ==
    LET opts == SelectSeq([i \in 1..Len(options) |->
                              [v |-> IF options[i].v /= <<>> THEN options[i].v
                                     ELSE options[i].l,
                               l |-> options[i].l]],
                          LAMBDA o : o.v /= <<>>)
        low == lower(ans)
        exact == FirstWhere(opts, LAMBDA o : lower(o.l) = low \/ lower(o.v) = low)
        matches == {i \in 1..Len(opts) :
                       Contains(lower(opts[i].l), low) \/ Contains(lower(opts[i].v), low)}
    IN IF opts = <<>> \/ ans = <<>> THEN [kind |-> "none", v |-> <<>>]
       ELSE IF isdigit(ans) /\ 1 <= int(ans) /\ int(ans) <= Len(opts)
       THEN [kind |-> "return", v |-> opts[int(ans)].v]
       ELSE IF exact.ok THEN [kind |-> "return", v |-> exact.v]
       ELSE IF Cardinality(matches) = 1
       THEN [kind |-> "return", v |-> opts[MinOf(matches)].v]
       ELSE [kind |-> "again", v |-> <<>>]

\* select_in_combobox for one pick: the option clicked among the visible
\* labels.  get_by_role("option", name=re.compile(escaped, re.I)).first is
\* the first option whose name contains the pick ignoring case; the loop
\* over the visible nodes that follows looks for the same thing.
select_in_combobox(visible, pick) ==
    LET hits == {i \in 1..Len(visible) : Contains(lower(visible[i]), lower(pick))} IN
    IF hits = {} THEN 0 ELSE MinOf(hits)

\* ------------------------------------------------------------------------
\* Multi-select prompts (a6_complete_skipped_fields.py parse_selection,
\* app/prompts.py prompt_user_multi)
\* ------------------------------------------------------------------------
\* The pieces of s between separators: str.split(",") on {","}.
RECURSIVE Pieces(_, _, _)
Pieces(s, seps, cur) ==
    IF s = <<>> THEN <<cur>>
    ELSE IF Head(s) \in seps THEN <<cur>> \o Pieces(Tail(s), seps, <<>>)
    ELSE Pieces(Tail(s), seps, Append(cur, Head(s)))

\* [t.strip() for t in pieces if t.strip()]
RECURSIVE StrippedNonEmpty(_)
StrippedNonEmpty(pieces) ==
    IF pieces = <<>> THEN <<>>
    ELSE (IF strip(Head(pieces)) = <<>> THEN <<>> ELSE <<strip(Head(pieces))>>)
         \o StrippedNonEmpty(Tail(pieces))

\* The tokens of parse_selection: input_str.split(","), stripped.
CommaTokens(s) == StrippedNonEmpty(Pieces(s, {","}, <<>>))

\* The tokens of prompt_user_multi: re.split(r"[,\s]+", ans), stripped.
CommaSpaceTokens(s) == StrippedNonEmpty(Pieces(s, {",", " "}, <<>>))

\* ci_match_label on strings: the first label equal to the token ignoring
\* case, <<>> when there is none.
ci_match_str(val, labels) ==
    LET hits == {i \in 1..Len(labels) : lower(strip(val)) = lower(labels[i])} IN
    IF hits = {} THEN <<>> ELSE labels[MinOf(hits)]

InSeq(x, seq) == \E i \in 1..Len(seq) : seq[i] = x

\* The loop of parse_selection over the tokens.
RECURSIVE ParseTokens(_, _, _)
ParseTokens(toks, labels, chosen) ==
    IF toks = <<>> THEN chosen
    ELSE LET t == Head(toks)
             pick == IF isdigit(t)
                     THEN (IF int(t) >= 1 /\ int(t) <= Len(labels) THEN labels[int(t)] ELSE <<>>)
                     ELSE ci_match_str(t, labels)
         IN IF pick /= <<>> /\ ~InSeq(pick, chosen)
            THEN ParseTokens(Tail(toks), labels, Append(chosen, pick))
            ELSE ParseTokens(Tail(toks), labels, chosen)

\* parse_selection on the line as typed.
parse_selection_str(input_str, labels) ==
    The({ParseTokens(toks, labels, <<>>) : toks \in {CommaTokens(input_str)}})

\* What one token of prompt_user_multi resolves to: a number of the list, a
\* label or value equal ignoring case, the only option containing it; <<>>
\* when it resolves to nothing.
MultiPick(p, opts) ==
    LET low == lower(p)
        exact == {i \in 1..Len(opts) : lower(opts[i].l) = low \/ lower(opts[i].v) = low}
        contains == {i \in 1..Len(opts) :
                        Contains(lower(opts[i].l), low) \/ Contains(lower(opts[i].v), low)}
    IN IF isdigit(p)
       THEN (IF 1 <= int(p) /\ int(p) <= Len(opts) THEN opts[int(p)].v ELSE <<>>)
       ELSE IF exact /= {} THEN opts[MinOf(exact)].v
       ELSE IF Cardinality(contains) = 1 THEN opts[MinOf(contains)].v
       ELSE <<>>

\* The values as picked, repeats kept (not what the code does).
WithRepeats(vals, out) == out \o vals

\* The values in first-seen order without repeats.
RECURSIVE Distinct(_, _)
Distinct(vals, out) ==
    IF vals = <<>> THEN out
    ELSE Distinct(Tail(vals), IF InSeq(Head(vals), out) THEN out ELSE Append(out, Head(vals)))

\* One round of the while loop of prompt_user_multi on the line ans: return
\* the values, or print a message and ask again.
MultiRound(picks, opts) ==
    LET vals == [i \in 1..Len(picks) |-> MultiPick(picks[i], opts)] IN
    IF \E i \in 1..Len(picks) : vals[i] = <<>>
    THEN [kind |-> "again", vals |-> <<>>]
    ELSE [kind |-> "return", vals |-> Distinct(vals, <<>>)]

prompt_user_multi(options, ans) ==
    LET opts == SelectSeq([i \in 1..Len(options) |->
                              [v |-> IF options[i].v /= <<>> THEN options[i].v
                                     ELSE options[i].l,
                               l |-> options[i].l]],
                          LAMBDA o : o.v /= <<>>)
    IN IF opts = <<>> \/ ans = <<>> THEN [kind |-> "return", vals |-> <<>>]
       ELSE The({MultiRound(picks, opts) : picks \in {CommaSpaceTokens(ans)}})

\* Python / Machine Learning / Deep Learning / Java
SkillOptions ==
    <<[v |-> <<"p", "y">>, l |-> <<"P", "y", "t", "h", "o", "n">>],
      [v |-> <<"m", "l">>, l |-> <<"M", "a", "c", "h", "i", "n", "e", " ", "L", "e", "a", "r", "n", "i", "n", "g">>],
      [v |-> <<"d", "l">>, l |-> <<"D", "e", "e", "p", " ", "L", "e", "a", "r", "n", "i", "n", "g">>],
      [v |-> <<"j", "a", "v", "a">>, l |-> <<"J", "a", "v", "a">>]>>

\* The multi-select lists offered: the prefixes of two to MaxOptions skills.
MultiOptionLists ==
    {SubSeq(SkillOptions, 1, n) : n \in {m \in 2..MaxOptions : m <= Len(SkillOptions)}}

\* Lines typed at a multi-select prompt, stripped:
\* 'Python, Java', 'python java', '2,1,2', 'Machine Learning, python', 'learning', 'Python, Cobol', '1 3', 'java,,JAVA', 'deep', '9, python', 'py ml'.
MultiLines ==
    {<<"P", "y", "t", "h", "o", "n", ",", " ", "J", "a", "v", "a">>,
     <<"p", "y", "t", "h", "o", "n", " ", "j", "a", "v", "a">>,
     <<"2", ",", "1", ",", "2">>,
     <<"M", "a", "c", "h", "i", "n", "e", " ", "L", "e", "a", "r", "n", "i", "n", "g", ",", " ", "p", "y", "t", "h", "o", "n">>,
     <<"l", "e", "a", "r", "n", "i", "n", "g">>,
     <<"P", "y", "t", "h", "o", "n", ",", " ", "C", "o", "b", "o", "l">>,
     <<"1", " ", "3">>,
     <<"j", "a", "v", "a", ",", ",", "J", "A", "V", "A">>,
     <<"d", "e", "e", "p">>,
     <<"9", ",", " ", "p", "y", "t", "h", "o", "n">>,
     <<"p", "y", " ", "m", "l">>}

\* ------------------------------------------------------------------------
\* Calls of the prompts and of the menu click on the option lists and lines
\* above
\* ------------------------------------------------------------------------
InitChoose ==
    /\ PipeIdle
    /\ RunIdle
    /\ WidgetIdle
    /\ ExtractIdle
    /\ ch_pc \in {"ask", "ask_multi"}
    /\ ch_options \in IF ch_pc = "ask" THEN OptionLists ELSE MultiOptionLists
    /\ ch_ans = <<>>
    /\ ch_result = [ok |-> FALSE, v |-> <<>>, step |-> "none"]
    /\ ch_prompt = [kind |-> "none", v |-> <<>>]
    /\ ch_clicked = 0
    /\ ch_picks = [kind |-> "none", vals |-> <<>>]

\* choose_from_user reads one line and returns.
ChooseFromUser ==
    /\ ch_pc = "ask"
    /\ \E ans \in TypedAnswers :
          /\ ch_ans' = ans
          /\ ch_result' = choose_from_user(ch_options, ans)
    /\ ch_pc' = "chosen"
    /\ UNCHANGED <<ch_options, ch_prompt, ch_clicked, ch_picks>>
    /\ UNCHANGED <<pipeVars, runVars, widgetVars, extractVars>>

\* prompt_user_choice reads one line; it returns or asks again.
PromptUserChoice ==
    /\ ch_pc \in {"ask", "ask_again"}
    /\ \E ans \in TypedAnswers \cup {<<>>} :
          /\ ch_ans' = ans
          /\ ch_prompt' = prompt_user_choice(ch_options, ans)
    /\ ch_pc' = IF ch_prompt'.kind = "again" THEN "ask_again" ELSE "prompted"
    /\ UNCHANGED <<ch_options, ch_result, ch_clicked, ch_picks>>
    /\ UNCHANGED <<pipeVars, runVars, widgetVars, extractVars>>

\* app/widgets.py select_in_combobox for one pick, the menu showing the
\* labels of ch_options.
SelectInCombobox ==
    /\ ch_pc = "ask"
    /\ \E pick \in TypedAnswers :
          /\ ch_ans' = pick
          /\ ch_clicked' = select_in_combobox([i \in 1..Len(ch_options) |-> ch_options[i].l],
                                              pick)
    /\ ch_pc' = "clicked"
    /\ UNCHANGED <<ch_options, ch_result, ch_prompt, ch_picks>>
    /\ UNCHANGED <<pipeVars, runVars, widgetVars, extractVars>>

\* ask_for_field of a6 on a field that allows several options: one line is
\* read and parse_selection makes the answer of it.
ParseSelection ==
    /\ ch_pc = "ask_multi"
    /\ \E raw \in MultiLines :
          LET chosen == parse_selection_str(raw, [i \in 1..Len(ch_options) |-> ch_options[i].l])
          IN  /\ ch_ans' = raw
              /\ ch_picks' = [kind |-> IF chosen = <<>> THEN "skip" ELSE "return", vals |-> chosen]
    /\ ch_pc' = "parsed"
    /\ UNCHANGED <<ch_options, ch_result, ch_prompt, ch_clicked>>
    /\ UNCHANGED <<pipeVars, runVars, widgetVars, extractVars>>

\* prompt_user_multi reads one line; it returns or asks again.
PromptUserMulti ==
    /\ ch_pc \in {"ask_multi", "ask_multi_again"}
    /\ \E ans \in MultiLines \cup {<<>>} :
          /\ ch_ans' = ans
          /\ ch_picks' = prompt_user_multi(ch_options, ans)
    /\ ch_pc' = IF ch_picks'.kind = "again" THEN "ask_multi_again" ELSE "picked"
    /\ UNCHANGED <<ch_options, ch_result, ch_prompt, ch_clicked>>
    /\ UNCHANGED <<pipeVars, runVars, widgetVars, extractVars>>

NextChoose ==
    \/ ChooseFromUser
    \/ PromptUserChoice
    \/ SelectInCombobox
    \/ ParseSelection
    \/ PromptUserMulti

SpecChoose == InitChoose /\ [][NextChoose]_vars

\* ------------------------------------------------------------------------
\* Properties of option matching
\* ------------------------------------------------------------------------
\* Positions of the options whose label or value is the line ignoring case.
ExactHits ==
    {i \in 1..Len(ch_options) :
        lower(ch_options[i].l) = lower(ch_ans) \/ lower(ch_options[i].v) = lower(ch_ans)}

\* Positions of the options whose label contains the line ignoring case.
SubstringHits ==
    {i \in 1..Len(ch_options) : Contains(lower(ch_options[i].l), lower(ch_ans))}

\* Positions of the options whose range holds the parsed duration.
HoldingHits ==
    LET months == parse_months_free_text(ch_ans) IN
    {i \in 1..Len(ch_options) :
        LET r == months_range_from_label(ch_options[i].l) IN
        months.ok /\ r.ok /\ r.lo <= months.m /\ (r.inf \/ months.m <= r.hi)}

\* C11: when the line equals an option's label or value ignoring case, both
\* prompts return such an option.
C11_ExactMatchWins ==
    ExactHits /= {} =>
        /\ ch_pc = "chosen" =>
              ch_result.ok /\ ch_result.v \in {ch_options[i].v : i \in ExactHits}
        /\ ch_pc = "prompted" =>
              ch_prompt.kind = "return" /\ ch_prompt.v \in {ch_options[i].v : i \in ExactHits}

\* C12: when the line is contained in the labels of two or more options,
\* equals none of them and is neither an option number nor a duration,
\* choose_from_user returns none of these options and select_in_combobox
\* clicks none of them.
C12_NoGuessAmongTies ==
    (/\ Cardinality(SubstringHits) >= 2
     /\ ExactHits = {}
     /\ ~isdigit(ch_ans)
     /\ ~parse_months_free_text(ch_ans).ok) =>
        /\ ch_pc = "chosen" =>
              ~(ch_result.ok /\ ch_result.v \in {ch_options[i].v : i \in SubstringHits})
        /\ ch_pc = "clicked" => ch_clicked \notin SubstringHits

\* Distance from months to the nearest boundary of the range r.
BoundaryDistance(r, months) ==
    LET dlo == IF months >= r.lo THEN months - r.lo ELSE r.lo - months
        dhi == IF months >= r.hi THEN months - r.hi ELSE r.hi - months
    IN IF r.inf \/ dlo <= dhi THEN dlo ELSE dhi

\* C13: when the bucket step decides and no range holds the duration, the
\* option returned is the earliest of those at minimum boundary distance.
C13_NearestBoundaryWins ==
    (ch_pc = "chosen" /\ ch_result.step = "bucket" /\ HoldingHits = {}) =>
        LET months == parse_months_free_text(ch_ans).m
            ranged == {i \in 1..Len(ch_options) : months_range_from_label(ch_options[i].l).ok}
            d(i) == BoundaryDistance(months_range_from_label(ch_options[i].l), months)
            nearest == {i \in ranged : \A k \in ranged : d(i) <= d(k)}
        IN ch_result.v = ch_options[MinOf(nearest)].v

\* The line is an option number: digits naming a position of the list.
IsOptionNumber == isdigit(ch_ans) /\ 1 <= int(ch_ans) /\ int(ch_ans) <= Len(ch_options)

\* C14: when the line parses to a duration, is not an option number, and
\* some option's range holds the duration, choose_from_user returns the
\* first such option; with the three tenure options, "8 months" gives the
\* second, "fresher" the first and "3 years" the third.
C14_BucketHoldsDuration ==
    ch_pc = "chosen" =>
        /\ (HoldingHits /= {} /\ ~IsOptionNumber) =>
              /\ ch_result.step = "bucket"
              /\ ch_result.v = ch_options[MinOf(HoldingHits)].v
        /\ ch_options = TenureOptions =>
              /\ ch_ans = <<"8", " ", "m", "o", "n", "t", "h", "s">> => ch_result.v = TenureOptions[2].v
              /\ ch_ans = <<"f", "r", "e", "s", "h", "e", "r">> => ch_result.v = TenureOptions[1].v
              /\ ch_ans = <<"3", " ", "y", "e", "a", "r", "s">> => ch_result.v = TenureOptions[3].v

\* "8 months" was typed at the three tenure options and the second came back.
C14_Witness ==
    /\ ch_pc = "chosen"
    /\ ch_options = TenureOptions
    /\ ch_ans = <<"8", " ", "m", "o", "n", "t", "h", "s">>
    /\ ch_result = [ok |-> TRUE, v |-> TenureOptions[2].v, step |-> "bucket"]

\* C14 as stated: whenever the line parses to a duration and some option's
\* range holds it, that option is returned.
C14_AnyDurationBucketed ==
    (ch_pc = "chosen" /\ HoldingHits /= {}) =>
        ch_result.v \in {ch_options[i].v : i \in HoldingHits}

\* C15: "2 years" at the options 0-1 years, 1-3 years, 3-5 years gives
\* 1-3 years.
C15_YearsScenario ==
    (ch_pc = "chosen" /\ ch_options = YearsOptions /\ ch_ans = <<"2", " ", "y", "e", "a", "r", "s">>) =>
        ch_result.v = YearsOptions[2].v

\* ------------------------------------------------------------------------
\* Properties of the multi-select prompts
\* ------------------------------------------------------------------------
\* The label a token of parse_selection stands for, <<>> for none.
ParsedLabel(t) ==
    LET labels == [i \in 1..Len(ch_options) |-> ch_options[i].l] IN
    IF isdigit(t)
    THEN (IF int(t) \in 1..Len(labels) THEN labels[int(t)] ELSE <<>>)
    ELSE ci_match_str(t, labels)

\* The value a token of prompt_user_multi stands for, <<>> for none.
PickedValue(t) == MultiPick(t, ch_options)

\* Position of the first token that stands for x.
FirstSeen(x, toks, R(_)) == MinOf({k \in 1..Len(toks) : R(toks[k]) = x})

\* vals is the union of what the tokens stand for, in first-seen order and
\* without repeats.
FirstSeenUnion(vals, toks, R(_)) ==
    /\ \A i, j \in 1..Len(vals) : i /= j => vals[i] /= vals[j]
    /\ {vals[i] : i \in 1..Len(vals)} = {R(toks[k]) : k \in 1..Len(toks)} \ {<<>>}
    /\ \A i, j \in 1..Len(vals) : i < j => FirstSeen(vals[i], toks, R) < FirstSeen(vals[j], toks, R)

\* C21: parse_selection cuts the line at commas, takes each token as an
\* option number or as a label ignoring case, passes over the tokens that
\* stand for nothing and answers the union in first-seen order without
\* repeats.  prompt_user_multi cuts at commas and blanks, takes each token
\* as a number, an equal label or value, or the only option containing it;
\* when every token stands for an option it returns their union in
\* first-seen order without repeats, and when one does not it returns
\* nothing and asks again.
C21_MultiSelectUnion ==
    /\ ch_pc = "parsed" => FirstSeenUnion(ch_picks.vals, CommaTokens(ch_ans), ParsedLabel)
    /\ (ch_pc = "picked" /\ ch_ans /= <<>>) =>
          /\ \A k \in 1..Len(CommaSpaceTokens(ch_ans)) :
                PickedValue(CommaSpaceTokens(ch_ans)[k]) /= <<>>
          /\ FirstSeenUnion(ch_picks.vals, CommaSpaceTokens(ch_ans), PickedValue)
    /\ ch_pc = "ask_multi_again" =>
          /\ \E k \in 1..Len(CommaSpaceTokens(ch_ans)) :
                PickedValue(CommaSpaceTokens(ch_ans)[k]) = <<>>
          /\ ch_picks.vals = <<>>

\* "2,1,2" was typed at prompt_user_multi and the values of the second and of
\* the first option came back, in that order.
C21_Witness ==
    /\ ch_pc = "picked"
    /\ ch_ans = <<"2", ",", "1", ",", "2">>
    /\ ch_picks = [kind |-> "return", vals |-> <<ch_options[2].v, ch_options[1].v>>]

\* C21 as stated: the line is cut at commas and blanks and the answer is the
\* union of the options the tokens stand for.
C21_TokensAtCommasAndBlanks ==
    /\ ch_pc = "parsed" =>
          {ch_picks.vals[i] : i \in 1..Len(ch_picks.vals)}
              = {ParsedLabel(CommaSpaceTokens(ch_ans)[k]) : k \in 1..Len(CommaSpaceTokens(ch_ans))} \ {<<>>}
    /\ ch_pc \in {"picked", "ask_multi_again"} =>
          {ch_picks.vals[i] : i \in 1..Len(ch_picks.vals)}
              = {PickedValue(CommaSpaceTokens(ch_ans)[k]) : k \in 1..Len(CommaSpaceTokens(ch_ans))} \ {<<>>}

\* ------------------------------------------------------------------------
\* Form-control helpers of the fill step
\* ------------------------------------------------------------------------
\* The sets of operations that raise during one call: every browser
\* operation either returns or raises (timeout, detached node, bad argument).
FailSets(ops) == {F \in SUBSET ops : Cardinality(F) <= MaxFailures}

\* What a helper hands back: the operations that took effect, the position
\* it acted on and its return value.
Outcome(trace, at, ret) == [trace |-> trace, at |-> at, ret |-> ret]

Bool(b) == IF b THEN "true" ELSE "false"

\* The browser operations of open_combo_type_slow_pick_first, in program
\* order (a7_fill_form_resume.py 395-434).
ComboOps ==
    {"click", "mouse_click", "locate_input", "fill_empty", "type", "keyboard_type",
     "find_options", "option_count", "option_scroll", "option_click",
     "press_enter", "press_enter_again"}

\* The menus after typing: for each option of the page whether it is visible.
ComboMenus == UNION {[1..n -> BOOLEAN] : n \in 0..MaxOptions}

\* Position of the first visible option, 0 when none is visible.
FirstVisible(menu) ==
    IF \E i \in 1..Len(menu) : menu[i]
    THEN MinOf({i \in 1..Len(menu) : menu[i]})
    ELSE 0

\* combo_first_visible_option: the first visible option, None (0) when none
\* is visible or when locating the options raised.
combo_first_visible_option(menu, fails) ==
    IF "find_options" \in fails THEN 0 ELSE FirstVisible(menu)

\* open_combo_type_slow_pick_first.
open_combo_type_slow_pick_first(menu, fails) ==
    LET opened == "click" \notin fails \/ "mouse_click" \notin fails
        located == "locate_input" \notin fails
        cleared == located /\ "fill_empty" \notin fails
        typed == (located /\ "type" \notin fails) \/ "keyboard_type" \notin fails
        before == (IF opened THEN <<"open">> ELSE <<>>) \o <<"pause">>
                  \o (IF cleared THEN <<"clear">> ELSE <<>>)
                  \o (IF typed THEN <<"type">> ELSE <<>>)
                  \o <<"settle">>
        option == combo_first_visible_option(menu, fails)
        again == IF "press_enter_again" \notin fails
                 THEN Outcome(before \o <<"enter">>, 0, Bool(typed))
                 ELSE Outcome(before, 0, "false")
    IN  IF option /= 0
        THEN IF {"option_count", "option_scroll", "option_click"} \cap fails = {}
             THEN Outcome(before \o <<"click_option">>, option, "true")
             ELSE again
        ELSE IF "press_enter" \notin fails
             THEN Outcome(before \o <<"enter">>, 0, Bool(typed))
             ELSE again

\* The options of a <select>: the value attribute and the text of each.
OPlease == [val |-> <<"0">>, txt |-> <<"P", "l", "e", "a", "s", "e", " ", "s", "e", "l", "e", "c", "t">>]

OSelectDots == [val |-> <<>>, txt |-> <<"S", "e", "l", "e", "c", "t", ".", ".", ".">>]

OAlpha == [val |-> <<"a">>, txt |-> <<"A", "l", "p", "h", "a">>]

OBeta == [val |-> <<"b">>, txt |-> <<"B", "e", "t", "a">>]

OFirst == [val |-> <<"A", "l", "p", "h", "a">>, txt |-> <<"F", "i", "r", "s", "t">>]

OBare == [val |-> <<>>, txt |-> <<"O", "t", "h", "e", "r">>]

SelectCatalogue == {OPlease, OSelectDots, OAlpha, OBeta, OFirst, OBare}

\* The <select> elements: one to MaxOptions options of the catalogue.
SelectMenus == UNION {[1..n -> SelectCatalogue] : n \in 1..MaxOptions}

\* The values a <select> is asked to take.
SelectValues == {<<"A", "l", "p", "h", "a">>, <<"b">>, <<"G", "a", "m", "m", "a">>}

SelectOps == {"select_label", "select_value", "list_options", "select_index"}

\* Position of the first option that satisfies P, 0 when none does.
FirstOption(options, P(_)) ==
    LET hits == {i \in 1..Len(options) : P(options[i])} IN
    IF hits = {} THEN 0 ELSE MinOf(hits)

\* The test of the fallback loop: a value attribute, or a text without
\* "select", "choose" and "please".
Selectable(o) ==
    LET txt == strip(o.txt)
        val == strip(o.val)
        low == lower(txt)
    IN  \/ val /= <<>>
        \/ /\ txt /= <<>>
           /\ ~Contains(low, <<"s", "e", "l", "e", "c", "t">>)
           /\ ~Contains(low, <<"c", "h", "o", "o", "s", "e">>)
           /\ ~Contains(low, <<"p", "l", "e", "a", "s", "e">>)

\* select_native_select: by label, by value, then the first option the
\* fallback test accepts. select_option raises when no option matches.
select_native_select(options, value, fails) ==
    LET byLabel == FirstOption(options, LAMBDA o : o.txt = value)
        byValue == FirstOption(options, LAMBDA o : o.val = value)
        byIndex == FirstOption(options, Selectable)
    IN  IF byLabel /= 0 /\ "select_label" \notin fails
        THEN Outcome(<<"by_label">>, byLabel, "true")
        ELSE IF byValue /= 0 /\ "select_value" \notin fails
        THEN Outcome(<<"by_value">>, byValue, "true")
        ELSE IF "list_options" \notin fails /\ byIndex /= 0 /\ "select_index" \notin fails
        THEN Outcome(<<"by_index">>, byIndex, "true")
        ELSE Outcome(<<>>, 0, "false")

\* The select branch of fill_value_into_field (app/fill.py 18-28): by
\* value, then by label, nothing else; the function returns nothing.
fill_value_into_select(options, value, fails) ==
    LET byLabel == FirstOption(options, LAMBDA o : o.txt = value)
        byValue == FirstOption(options, LAMBDA o : o.val = value)
    IN  IF byValue /= 0 /\ "select_value" \notin fails
        THEN Outcome(<<"by_value">>, byValue, "none")
        ELSE IF byLabel /= 0 /\ "select_label" \notin fails
        THEN Outcome(<<"by_label">>, byLabel, "none")
        ELSE Outcome(<<>>, 0, "none")

\* The peers of a radio or checkbox group: value attribute and label text.
PeerCatalogue ==
    <<[value |-> <<"y", "e", "s">>, label |-> <<"Y", "e", "s">>],
      [value |-> <<"n", "o">>, label |-> <<"N", "o">>],
      [value |-> <<"n", "a">>, label |-> <<"N", "o", "t", " ", "s", "u", "r", "e">>],
      [value |-> <<"l", "a", "t", "e", "r">>, label |-> <<"L", "a", "t", "e", "r">>]>>

\* The checked flags a group of n peers can show: any for checkboxes, at
\* most one for radios.
CheckedFlags(kind, n) ==
    {c \in [1..n -> BOOLEAN] : kind = "radio" => Cardinality({i \in 1..n : c[i]}) <= 1}

\* The groups: one to MaxOptions peers, any of them the located control.
Groups ==
    {[kind |-> k, peers |-> SubSeq(PeerCatalogue, 1, n), checked |-> c, was |-> c, target |-> t] :
        <<k, n, c, t>> \in
            {q \in {"radio", "checkbox"} \X (1..MaxOptions)
                   \X (UNION {[1..m -> BOOLEAN] : m \in 1..MaxOptions}) \X (1..MaxOptions) :
                /\ q[2] <= Len(PeerCatalogue)
                /\ q[3] \in CheckedFlags(q[1], q[2])
                /\ q[4] <= q[2]}}

\* The values a group is asked to take: the value attribute of a peer, the
\* label of a peer, a text no peer carries, and the empty string.
GroupValues == {<<"y", "e", "s">>, <<"N", "o">>, <<"m", "a", "y", "b", "e">>, <<>>}

\* check() on peer i: a radio takes the mark from its peers.
Check(g, i) ==
    [k \in 1..Len(g.checked) |->
        IF k = i THEN TRUE ELSE IF g.kind = "radio" THEN FALSE ELSE g.checked[k]]

\* uncheck() on peer i.
Uncheck(g, i) == [g.checked EXCEPT ![i] = FALSE]

\* click() on peer i or on its label: a checkbox toggles.
Click(g, i) ==
    IF g.kind = "radio" THEN Check(g, i) ELSE [g.checked EXCEPT ![i] = ~g.checked[i]]

GroupOutcome(checked, trace, ret) == [checked |-> checked, trace |-> trace, ret |-> ret]

SafeFillOps == {"get_type", "click", "get_name", "peer_count", "peer_check", "check"}

\* safe_fill_text on a radio or checkbox (a7_fill_form_resume.py 281-335):
\* the peer [name][value] is checked when there is one, else the located
\* control itself. When the type cannot be read the text path clicks the
\* control and fill() raises.
safe_fill_text(g, value, fails) ==
    LET peer == FirstOption(g.peers, LAMBDA p : p.value = value)
        viaPeer == /\ value /= <<>>
                   /\ {"get_name", "peer_count"} \cap fails = {}
                   /\ peer /= 0
    IN  IF "get_type" \in fails
        THEN IF "click" \notin fails
             THEN GroupOutcome(Click(g, g.target), <<"click_located">>, "raised")
             ELSE GroupOutcome(g.checked, <<>>, "raised")
        ELSE IF viaPeer /\ "peer_check" \notin fails
        THEN GroupOutcome(Check(g, peer), <<"check_peer">>, "none")
        ELSE IF "check" \notin fails
        THEN GroupOutcome(Check(g, g.target), <<"check_located">>, "none")
        ELSE GroupOutcome(g.checked, <<>>, "raised")

ClickLabelOps == {"by_label", "by_radio_role", "by_checkbox_role", "by_label_text", "by_radio_text"}

\* click_option_label_near (a7_fill_form_resume.py 338-361): the first
\* candidate locator that finds something and whose click returns.
click_option_label_near(g, label_text, fails) ==
    LET exact == FirstOption(g.peers, LAMBDA p : p.label = label_text)
        within == FirstOption(g.peers, LAMBDA p : Contains(lower(p.label), lower(label_text)))
        hit(op) ==
            IF op \in fails THEN 0
            ELSE IF op = "by_label" THEN exact
            ELSE IF op = "by_radio_role" THEN (IF g.kind = "radio" THEN within ELSE 0)
            ELSE IF op = "by_checkbox_role" THEN (IF g.kind = "checkbox" THEN within ELSE 0)
            ELSE IF op = "by_label_text" THEN within
            ELSE (IF g.kind = "radio" THEN within ELSE 0)
        tries == <<"by_label", "by_radio_role", "by_checkbox_role", "by_label_text", "by_radio_text">>
        found == {k \in 1..Len(tries) : hit(tries[k]) /= 0}
    IN  IF found = {}
        THEN GroupOutcome(g.checked, <<>>, "false")
        ELSE GroupOutcome(Click(g, hit(tries[MinOf(found)])), <<tries[MinOf(found)]>>, "true")

FillCheckOps == {"check", "uncheck", "click"}

\* str(val).lower() in ("true","1","yes","y","on")
Truthy(value) == lower(value) \in {<<"t", "r", "u", "e">>, <<"1">>, <<"y", "e", "s">>, <<"y">>, <<"o", "n">>}

\* The checkbox/radio branch of fill_value_into_field (app/fill.py 31-42):
\* a checkbox is checked for a truthy value and unchecked otherwise; a radio
\* is checked whatever the value.
fill_value_into_check(g, value, fails) ==
    IF g.kind = "checkbox"
    THEN IF Truthy(value)
         THEN IF "check" \notin fails
              THEN GroupOutcome(Check(g, g.target), <<"check_located">>, "none")
              ELSE GroupOutcome(g.checked, <<>>, "none")
         ELSE IF "uncheck" \notin fails
              THEN GroupOutcome(Uncheck(g, g.target), <<"uncheck_located">>, "none")
              ELSE GroupOutcome(g.checked, <<>>, "none")
    ELSE IF "check" \notin fails
         THEN GroupOutcome(Check(g, g.target), <<"check_located">>, "none")
         ELSE IF "click" \notin fails
         THEN GroupOutcome(Click(g, g.target), <<"click_located">>, "none")
         ELSE GroupOutcome(g.checked, <<>>, "none")

GroupHelpers == {"safe_fill_text", "click_option_label_near", "fill_check"}

\* What a page offers for attaching a file: whether the file exists on disk,
\* a file input in the question's container, on the main page, in an
\* iframe, and an upload button in each of the three.
UploadPages ==
    [file : BOOLEAN, near_input : BOOLEAN, main_input : BOOLEAN, frame_input : BOOLEAN,
     near_button : BOOLEAN, main_button : BOOLEAN, frame_button : BOOLEAN]

\* One strategy and how it ended: "ok" (file attached), "fail" (nothing
\* attached, the function goes on), "raise" (an exception leaves the
\* function) or "skip" (not applicable, not attempted).
Strategy(name, end) == [name |-> name, end |-> end]

\* The strategies in program order until one attaches the file or raises.
RECURSIVE RunStrategies(_, _)
RunStrategies(strategies, trace) ==
    IF strategies = <<>> THEN Outcome(trace, 0, "false")
    ELSE LET st == Head(strategies) IN
         IF st.end = "skip" THEN RunStrategies(Tail(strategies), trace)
         ELSE IF st.end = "ok" THEN Outcome(Append(trace, st.name), Len(trace) + 1, "true")
         ELSE IF st.end = "raise" THEN Outcome(Append(trace, st.name), 0, "raised")
         ELSE RunStrategies(Tail(strategies), Append(trace, st.name))

\* Setting a file input: locating and set_input_files are both inside try.
SetInput(present, locate, set, fails) ==
    IF present /\ locate \notin fails /\ set \notin fails THEN "ok" ELSE "fail"

\* _click_and_use_file_chooser (a7 461-488) and
\* click_buttons_and_use_file_chooser (fill_form.py 369-402): finding the
\* groups and each click are inside try, the count of a found group is not.
UseChooser(present, find, count, chooser, fails) ==
    IF ~present \/ find \in fails THEN "fail"
    ELSE IF count \in fails THEN "raise"
    ELSE IF chooser \in fails THEN "fail"
    ELSE "ok"

\* The same with the call inside try (the iframe loop of auto_resume_tick).
UseChooserGuarded(present, find, count, chooser, fails) ==
    IF UseChooser(present, find, count, chooser, fails) = "ok" THEN "ok" ELSE "fail"

BestEffortOps ==
    {"near_locate", "near_set", "main_locate", "main_set", "frames_locate", "frames_set",
     "near_find", "near_count", "near_chooser", "main_find", "main_count", "main_chooser"}

\* The strategies of upload_file_best_effort (fill_form.py 404-456).
BestEffortStrategies(page, fails) ==
    LET container == page.near_input \/ page.near_button IN
    <<Strategy("near_input",
               IF container THEN SetInput(page.near_input, "near_locate", "near_set", fails)
               ELSE "skip"),
      Strategy("main_input", SetInput(page.main_input, "main_locate", "main_set", fails)),
      Strategy("frames_input",
               SetInput(page.main_input \/ page.frame_input, "frames_locate", "frames_set", fails)),
      Strategy("near_chooser",
               IF container
               THEN UseChooser(page.near_button, "near_find", "near_count", "near_chooser", fails)
               ELSE "skip"),
      Strategy("main_chooser",
               UseChooser(page.main_button, "main_find", "main_count", "main_chooser", fails))>>

upload_file_best_effort(page, fails) ==
    IF ~page.file THEN Outcome(<<>>, 0, "false")
    ELSE RunStrategies(BestEffortStrategies(page, fails), <<>>)

ResumeTickOps ==
    {"main_locate", "main_set", "frames_locate", "frames_set",
     "main_find", "main_count", "main_chooser", "frame_find", "frame_count", "frame_chooser"}

\* The strategies of auto_resume_tick (a7_fill_form_resume.py 511-544).
ResumeTickStrategies(page, fails) ==
    <<Strategy("main_input", SetInput(page.main_input, "main_locate", "main_set", fails)),
      Strategy("frames_input",
               SetInput(page.main_input \/ page.frame_input, "frames_locate", "frames_set", fails)),
      Strategy("main_chooser",
               UseChooser(page.main_button, "main_find", "main_count", "main_chooser", fails)),
      Strategy("frame_chooser",
               UseChooserGuarded(page.frame_button, "frame_find", "frame_count", "frame_chooser", fails))>>

auto_resume_tick(page, fails) ==
    IF ~page.file THEN Outcome(<<>>, 0, "false")
    ELSE RunStrategies(ResumeTickStrategies(page, fails), <<>>)

SmartUploadOps == {"set_input_files", "click", "chooser_set_files"}

\* The two methods of smart_file_upload (a7_fill_form_resume.py 651-714):
\* set_input_files on the control, then a click with a file chooser.
SmartUploadStrategies(page, fails) ==
    <<Strategy("set_input_files",
               IF page.main_input /\ "set_input_files" \notin fails THEN "ok" ELSE "fail"),
      Strategy("file_chooser",
               IF {"click", "chooser_set_files"} \cap fails = {} THEN "ok" ELSE "fail")>>

smart_file_upload(page, fails) ==
    IF ~page.file THEN Outcome(<<>>, 0, "false")
    ELSE RunStrategies(SmartUploadStrategies(page, fails), <<>>)

\* The pages each upload helper can meet: upload_file_best_effort has no
\* iframe buttons to try, auto_resume_tick has no container, and
\* smart_file_upload is handed one control, a file input or a button.
UploadPagesOf(fn) ==
    IF fn = "upload_file_best_effort" THEN {u \in UploadPages : ~u.frame_button}
    ELSE IF fn = "auto_resume_tick" THEN {u \in UploadPages : ~u.near_input /\ ~u.near_button}
    ELSE {u \in UploadPages :
            /\ ~u.near_input /\ ~u.near_button /\ ~u.frame_input /\ ~u.frame_button
            /\ u.main_input /= u.main_button}

UploadHelpers == {"upload_file_best_effort", "auto_resume_tick", "smart_file_upload"}

HelperNames == {"combo", "select", "fill_select"} \cup GroupHelpers \cup UploadHelpers

InitWidgets ==
    /\ PipeIdle
    /\ RunIdle
    /\ ChooseIdle
    /\ ExtractIdle
    /\ w_pc = "ready"
    /\ w_fn \in HelperNames
    /\ w_value = <<>>
    /\ w_fails = {}
    /\ w_trace = <<>>
    /\ w_ret = "none"
    /\ w_select \in IF w_fn \in {"select", "fill_select"}
                    THEN {[options |-> m, selected |-> 1] : m \in SelectMenus}
                    ELSE {NoSelect}
    /\ w_group \in IF w_fn \in GroupHelpers THEN Groups ELSE {NoGroup}
    /\ w_upload \in IF w_fn \in UploadHelpers THEN UploadPagesOf(w_fn) ELSE {NoUpload}
    /\ w_combo \in IF w_fn = "combo"
                   THEN {[options |-> m, clicked |-> 0] : m \in ComboMenus}
                   ELSE {NoCombo}

\* fill_one_field hands a combobox and one answer to
\* open_combo_type_slow_pick_first.
OpenComboTypeSlowPickFirst ==
    /\ w_pc = "ready"
    /\ w_fn = "combo"
    /\ \E fails \in FailSets(ComboOps) :
          LET out == open_combo_type_slow_pick_first(w_combo.options, fails)
          IN  /\ w_fails' = fails
              /\ w_trace' = out.trace
              /\ w_ret' = out.ret
              /\ w_combo' = [w_combo EXCEPT !.clicked = out.at]
    /\ w_value' = <<"B", "a", "n", "g", "a", "l", "o", "r", "e">>
    /\ w_pc' = "done"
    /\ UNCHANGED <<w_fn, w_select, w_group, w_upload>>
    /\ UNCHANGED <<pipeVars, runVars, chooseVars, extractVars>>

\* fill_one_field hands a <select> and one answer to select_native_select.
SelectNativeSelect ==
    /\ w_pc = "ready"
    /\ w_fn = "select"
    /\ \E fails \in FailSets(SelectOps), value \in SelectValues :
          LET out == select_native_select(w_select.options, value, fails)
          IN  /\ w_fails' = fails
              /\ w_value' = value
              /\ w_trace' = out.trace
              /\ w_ret' = out.ret
              /\ w_select' = IF out.at = 0 THEN w_select
                             ELSE [w_select EXCEPT !.selected = out.at]
    /\ w_pc' = "done"
    /\ UNCHANGED <<w_fn, w_group, w_combo, w_upload>>
    /\ UNCHANGED <<pipeVars, runVars, chooseVars, extractVars>>

\* run_once hands a <select> and its planned value to fill_value_into_field.
FillValueIntoSelect ==
    /\ w_pc = "ready"
    /\ w_fn = "fill_select"
    /\ \E fails \in FailSets(SelectOps \ {"list_options", "select_index"}), value \in SelectValues :
          LET out == fill_value_into_select(w_select.options, value, fails)
          IN  /\ w_fails' = fails
              /\ w_value' = value
              /\ w_trace' = out.trace
              /\ w_ret' = out.ret
              /\ w_select' = IF out.at = 0 THEN w_select
                             ELSE [w_select EXCEPT !.selected = out.at]
    /\ w_pc' = "done"
    /\ UNCHANGED <<w_fn, w_group, w_combo, w_upload>>
    /\ UNCHANGED <<pipeVars, runVars, chooseVars, extractVars>>

\* fill_one_field hands a located radio or checkbox and one answer to
\* safe_fill_text.
SafeFillText ==
    /\ w_pc = "ready"
    /\ w_fn = "safe_fill_text"
    /\ \E fails \in FailSets(SafeFillOps), value \in GroupValues :
          LET out == safe_fill_text(w_group, value, fails)
          IN  /\ w_fails' = fails
              /\ w_value' = value
              /\ w_trace' = out.trace
              /\ w_ret' = out.ret
              /\ w_group' = [w_group EXCEPT !.checked = out.checked]
    /\ w_pc' = "done"
    /\ UNCHANGED <<w_fn, w_select, w_combo, w_upload>>
    /\ UNCHANGED <<pipeVars, runVars, chooseVars, extractVars>>

\* fill_one_field hands one answer of a radio container to
\* click_option_label_near.
ClickOptionLabelNear ==
    /\ w_pc = "ready"
    /\ w_fn = "click_option_label_near"
    /\ \E fails \in FailSets(ClickLabelOps), value \in (GroupValues \ {<<>>}) :
          LET out == click_option_label_near(w_group, value, fails)
          IN  /\ w_fails' = fails
              /\ w_value' = value
              /\ w_trace' = out.trace
              /\ w_ret' = out.ret
              /\ w_group' = [w_group EXCEPT !.checked = out.checked]
    /\ w_pc' = "done"
    /\ UNCHANGED <<w_fn, w_select, w_combo, w_upload>>
    /\ UNCHANGED <<pipeVars, runVars, chooseVars, extractVars>>

\* run_once hands a checkbox or radio and its planned value to
\* fill_value_into_field.
FillValueIntoCheck ==
    /\ w_pc = "ready"
    /\ w_fn = "fill_check"
    /\ \E fails \in FailSets(FillCheckOps), value \in GroupValues :
          LET out == fill_value_into_check(w_group, value, fails)
          IN  /\ w_fails' = fails
              /\ w_value' = value
              /\ w_trace' = out.trace
              /\ w_ret' = out.ret
              /\ w_group' = [w_group EXCEPT !.checked = out.checked]
    /\ w_pc' = "done"
    /\ UNCHANGED <<w_fn, w_select, w_combo, w_upload>>
    /\ UNCHANGED <<pipeVars, runVars, chooseVars, extractVars>>

\* fill_form.py hands a file question to upload_file_best_effort.
UploadFileBestEffort ==
    /\ w_pc = "ready"
    /\ w_fn = "upload_file_best_effort"
    /\ \E fails \in FailSets(BestEffortOps) :
          LET out == upload_file_best_effort(w_upload, fails)
          IN  /\ w_fails' = fails
              /\ w_trace' = out.trace
              /\ w_ret' = out.ret
    /\ w_pc' = "done"
    /\ UNCHANGED <<w_fn, w_value, w_select, w_group, w_combo, w_upload>>
    /\ UNCHANGED <<pipeVars, runVars, chooseVars, extractVars>>

\* One call of auto_resume_tick on the page.
AutoResumeTick ==
    /\ w_pc = "ready"
    /\ w_fn = "auto_resume_tick"
    /\ \E fails \in FailSets(ResumeTickOps) :
          LET out == auto_resume_tick(w_upload, fails)
          IN  /\ w_fails' = fails
              /\ w_trace' = out.trace
              /\ w_ret' = out.ret
    /\ w_pc' = "done"
    /\ UNCHANGED <<w_fn, w_value, w_select, w_group, w_combo, w_upload>>
    /\ UNCHANGED <<pipeVars, runVars, chooseVars, extractVars>>

\* fill_one_field hands a file control to smart_file_upload.
SmartFileUpload ==
    /\ w_pc = "ready"
    /\ w_fn = "smart_file_upload"
    /\ \E fails \in FailSets(SmartUploadOps) :
          LET out == smart_file_upload(w_upload, fails)
          IN  /\ w_fails' = fails
              /\ w_trace' = out.trace
              /\ w_ret' = out.ret
    /\ w_pc' = "done"
    /\ UNCHANGED <<w_fn, w_value, w_select, w_group, w_combo, w_upload>>
    /\ UNCHANGED <<pipeVars, runVars, chooseVars, extractVars>>

NextWidgets ==
    \/ OpenComboTypeSlowPickFirst
    \/ SelectNativeSelect
    \/ FillValueIntoSelect
    \/ SafeFillText
    \/ ClickOptionLabelNear
    \/ FillValueIntoCheck
    \/ UploadFileBestEffort
    \/ AutoResumeTick
    \/ SmartFileUpload

SpecWidgets == InitWidgets /\ [][NextWidgets]_vars

\* ------------------------------------------------------------------------
\* Properties of the form-control helpers
\* ------------------------------------------------------------------------
\* The trace is the sequence steps with some of its entries left out.
RECURSIVE InOrder(_, _)
InOrder(trace, steps) ==
    IF trace = <<>> THEN TRUE
    ELSE IF steps = <<>> THEN FALSE
    ELSE IF Head(trace) = Head(steps) THEN InOrder(Tail(trace), Tail(steps))
    ELSE InOrder(trace, Tail(steps))

Occurs(op, trace) == \E i \in 1..Len(trace) : trace[i] = op

ComboDone == w_pc = "done" /\ w_fn = "combo"

\* C16: the combobox is opened, cleared, typed into, left to settle and then
\* picked from, in that order; after the wait the first visible option is
\* clicked whenever an option is visible, and Enter is pressed only when no
\* option is visible.
C16_ComboPicksFirstVisible ==
    ComboDone =>
        /\ \/ InOrder(w_trace, <<"open", "pause", "clear", "type", "settle", "click_option">>)
           \/ InOrder(w_trace, <<"open", "pause", "clear", "type", "settle", "enter">>)
        /\ FirstVisible(w_combo.options) /= 0 =>
              /\ Occurs("click_option", w_trace)
              /\ w_combo.clicked = FirstVisible(w_combo.options)
        /\ Occurs("enter", w_trace) => FirstVisible(w_combo.options) = 0

\* An option whose text holds "select", "choose" or "please" in any case.
IsPlaceholder(o) ==
    LET low == lower(o.txt)
    IN  \/ Contains(low, <<"s", "e", "l", "e", "c", "t">>)
        \/ Contains(low, <<"c", "h", "o", "o", "s", "e">>)
        \/ Contains(low, <<"p", "l", "e", "a", "s", "e">>)

SelectDone == w_pc = "done" /\ w_fn = "select"

Picked == w_select.options[w_select.selected]

\* C17: a <select> is set by label first, then by value, and only when both
\* fail to the first option whose text does not mark a placeholder; the
\* fallback never selects a placeholder.
C17_SelectFallbackSkipsPlaceholders ==
    SelectDone =>
        /\ w_trace = <<"by_label">> => Picked.txt = w_value
        /\ w_trace = <<"by_value">> => Picked.val = w_value
        /\ w_trace = <<"by_index">> =>
              /\ ~IsPlaceholder(Picked)
              /\ w_select.selected = FirstOption(w_select.options, LAMBDA o : ~IsPlaceholder(o))

\* The peers whose value or label matches the value handed in, in the widest
\* sense: equal or contained, ignoring case.
MatchingPeers ==
    {i \in 1..Len(w_group.peers) :
        /\ w_value /= <<>>
        /\ \/ lower(w_group.peers[i].value) = lower(w_value)
           \/ Contains(lower(w_group.peers[i].label), lower(w_value))}

GroupDone == w_pc = "done" /\ w_fn \in GroupHelpers

\* C18: in a radio or checkbox group no peer that does not match the value
\* gets checked, and when no peer matches the group is left as it was.
C18_OnlyMatchingPeersChecked ==
    GroupDone =>
        /\ \A i \in 1..Len(w_group.peers) :
              (i \notin MatchingPeers /\ w_group.checked[i]) => w_group.was[i]
        /\ MatchingPeers = {} => w_group.checked = w_group.was

\* The strategies of the helper that was called, as the page and the raising
\* operations of this call make them end.
StrategiesOfCall ==
    IF w_fn = "upload_file_best_effort" THEN BestEffortStrategies(w_upload, w_fails)
    ELSE IF w_fn = "auto_resume_tick" THEN ResumeTickStrategies(w_upload, w_fails)
    ELSE SmartUploadStrategies(w_upload, w_fails)

UploadDone == w_pc = "done" /\ w_fn \in UploadHelpers

\* C19: the upload strategies do not depend on one another: when the file
\* exists and some strategy would attach it the helper returns true,
\* whatever raised in the strategies before it.
C19_UploadStrategiesIndependent ==
    (UploadDone /\ w_upload.file /\ \E k \in 1..Len(StrategiesOfCall) : StrategiesOfCall[k].end = "ok")
        => w_ret = "true"

\* Position of the field run_once prompts for in its next step, 0 when the
\* next step prompts for no field: the question pass asks a required field
\* without known key that reads blank, the re-check asks every required field
\* it kept as remaining.
FieldPromptedNext ==
    IF /\ r_pc = "ask_unknown"
       /\ r_idx <= Len(r_fields)
       /\ r_fields[r_idx].key \notin KNOWN_KEYS
       /\ r_idx \notin current
       /\ r_fields[r_idx].required
    THEN r_idx
    ELSE IF /\ r_pc = "recheck_ask"
            /\ r_idx <= Len(remaining)
            /\ r_fields[remaining[r_idx]].required
    THEN remaining[r_idx]
    ELSE 0

\* C20: ask-once in run_once: a field that is about to be prompted for has no
\* answer from an earlier source or pass and was not prompted for before in
\* this run, neither as a field nor through its key.
C20_AskOnce ==
    FieldPromptedNext /= 0 =>
        LET i == FieldPromptedNext IN
        /\ ~HasPlan(i)
        /\ [kind |-> "field", key |-> r_fields[i].key, pos |-> i] \notin human_asked
        /\ [kind |-> "key", key |-> r_fields[i].key, pos |-> 0] \notin human_asked

\* ------------------------------------------------------------------------
\* Discovery of combobox options
\* ------------------------------------------------------------------------

\* Comboboxes on the page that one discovery pass visits.
MaxBoxes == 2

\* What the page does when a combobox is visited: the control is "absent"
\* (hidden or not found), or the click "opens" its menu, or the click ends
\* in a "timeout" or another "error"; reading the options and pressing
\* Escape each either work or raise.
BoxStates == {"absent", "opens", "timeout", "error"}

ReadStates == {"ok", "timeout", "error"}

Boxes ==
    [state : BoxStates, read : ReadStates, escape : {"ok", "raise"}]

BoxLists == UNION {[1..n -> Boxes] : n \in 1..MaxBoxes}

ComboDiscoverers ==
    {"_aria_comboboxes", "extract_all_fields", "run_once"}

Visited(open, got, raised) == [open |-> open, got |-> got, raised |-> raised]

\* a4_enhanced_form_extractor.py _aria_comboboxes, one pass of the loop: a
\* hidden control is skipped; the click and the reading of the options share
\* one try whose failure leaves opts as far as it got; Escape goes to the
\* page's keyboard in a try of its own.
aria_combobox(box, i, open) ==
    IF box.state = "absent" THEN Visited(open, FALSE, FALSE)
    ELSE LET opened == IF box.state = "opens" THEN open \cup {i} ELSE open
             got == box.state = "opens" /\ box.read = "ok"
         IN  Visited(IF box.escape = "ok" THEN {} ELSE opened, got, FALSE)

\* form_extractor.py try_open_combobox_and_collect as called from the loop of
\* extract_all_fields: no element or a click that times out returns [];
\* only PlaywrightTimeoutError is caught around the click and around the
\* reading, so any other exception leaves the function before Escape.
try_open_combobox_and_collect(box, i, open) ==
    CASE box.state = "absent" -> Visited(open, FALSE, FALSE)
      [] box.state = "timeout" -> Visited(open, FALSE, FALSE)
      [] box.state = "error" -> Visited(open, FALSE, TRUE)
      [] OTHER ->
           IF box.read = "error" THEN Visited(open \cup {i}, FALSE, TRUE)
           ELSE Visited(IF box.escape = "ok" THEN open \ {i} ELSE open \cup {i},
                        box.read = "ok", FALSE)

\* app/widgets.py open_combobox_and_get_options as called from the question
\* loop of run_once: _open_menu clicks and presses keys with every failure
\* swallowed, the visible options are read, and no key closes the menu.
open_combobox_and_get_options(box, i, open) ==
    IF box.state = "opens"
    THEN Visited(open \cup {i}, box.read = "ok", FALSE)
    ELSE Visited(open, FALSE, FALSE)

VisitBox(fn, box, i, open) ==
    CASE fn = "_aria_comboboxes" -> aria_combobox(box, i, open)
      [] fn = "extract_all_fields" -> try_open_combobox_and_collect(box, i, open)
      [] OTHER -> open_combobox_and_get_options(box, i, open)

\* One pass of the loop over the comboboxes.
DiscoverCombobox ==
    /\ x_fn \in ComboDiscoverers
    /\ x_pc \in {"ready", "loop"}
    /\ x_out.i <= Len(x_in.boxes)
    /\ LET i == x_out.i
           v == VisitBox(x_fn, x_in.boxes[i], i, x_out.open)
       IN  /\ x_out' = [i |-> i + 1, open |-> v.open, last |-> i,
                        got |-> Append(x_out.got, v.got), raised |-> v.raised]
           /\ x_pc' = IF v.raised \/ i = Len(x_in.boxes) THEN "done" ELSE "loop"
    /\ UNCHANGED <<x_fn, x_in>>
    /\ UNCHANGED <<pipeVars, runVars, chooseVars, widgetVars>>

\* ------------------------------------------------------------------------
\* normalize_fields of form_answer_gemini.py and a6_complete_skipped_fields.py
\* ------------------------------------------------------------------------

\* A key that is missing, None or '' is the empty string: each chain of
\* raw.get(..) or raw.get(..) skips all three alike.
Absent == <<>>

\* a or b or ... over the values of the keys, in the order given.
RECURSIVE FirstTruthy(_, _)
FirstTruthy(vals, default) ==
    IF vals = <<>> THEN default
    ELSE IF Head(vals) /= Absent THEN Head(vals)
    ELSE FirstTruthy(Tail(vals), default)

TUnknown == <<"u", "n", "k", "n", "o", "w", "n">>

\* A kind that says nothing about several values (no substring test).
NamesNone(rtype) == FALSE

\* any(t in rtype for t in ["checkbox", "multi", "chips"])
NamesSeveral(rtype) ==
    \/ Contains(rtype, <<"c", "h", "e", "c", "k", "b", "o", "x">>)
    \/ Contains(rtype, <<"m", "u", "l", "t", "i">>)
    \/ Contains(rtype, <<"c", "h", "i", "p", "s">>)

\* any(bool(x) for x in multi_flags if x is not None), then the substring test
AllowsMultiple(raw, rtype) == raw.multiple = "true" \/ NamesSeveral(rtype)

\* The if/elif chain "coerce type" of form_answer_gemini.py: no branch for
\* uploads, and the last branch sends what is not canonical to unknown.
CoerceGemini(rtype) ==
    CASE rtype \in {<<"s", "e", "l", "e", "c", "t">>, <<"d", "r", "o", "p", "d", "o", "w", "n">>, <<"c", "o", "m", "b", "o">>, <<"c", "o", "m", "b", "o", "b", "o", "x">>} -> <<"s", "e", "l", "e", "c", "t">>
      [] rtype \in {<<"c", "h", "e", "c", "k", "b", "o", "x">>, <<"c", "h", "e", "c", "k", "b", "o", "x", "e", "s">>} -> <<"m", "u", "l", "t", "i", "s", "e", "l", "e", "c", "t">>
      [] rtype \in {<<"r", "a", "d", "i", "o">>, <<"r", "a", "d", "i", "o", "g", "r", "o", "u", "p">>, <<"c", "h", "o", "i", "c", "e">>} -> <<"r", "a", "d", "i", "o">>
      [] rtype \in {<<"i", "n", "p", "u", "t">>, <<"s", "h", "o", "r", "t", "t", "e", "x", "t">>, <<"t", "e", "x", "t", "i", "n", "p", "u", "t">>} -> <<"t", "e", "x", "t">>
      [] rtype \in {<<"t", "e", "x", "t", "a", "r", "e", "a">>, <<"l", "o", "n", "g", "t", "e", "x", "t">>} -> <<"t", "e", "x", "t", "a", "r", "e", "a">>
      [] rtype \notin {<<"t", "e", "x", "t">>, <<"t", "e", "x", "t", "a", "r", "e", "a">>, <<"s", "e", "l", "e", "c", "t">>, <<"m", "u", "l", "t", "i", "s", "e", "l", "e", "c", "t">>, <<"r", "a", "d", "i", "o">>, <<"u", "n", "k", "n", "o", "w", "n">>} -> TUnknown
      [] OTHER -> rtype

\* The same chain in a6_complete_skipped_fields.py, which has a branch for
\* uploads and keeps "file" as a canonical kind.
CoerceA6(rtype) ==
    CASE rtype \in {<<"s", "e", "l", "e", "c", "t">>, <<"d", "r", "o", "p", "d", "o", "w", "n">>, <<"c", "o", "m", "b", "o">>, <<"c", "o", "m", "b", "o", "b", "o", "x">>} -> <<"s", "e", "l", "e", "c", "t">>
      [] rtype \in {<<"c", "h", "e", "c", "k", "b", "o", "x">>, <<"c", "h", "e", "c", "k", "b", "o", "x", "e", "s">>} -> <<"m", "u", "l", "t", "i", "s", "e", "l", "e", "c", "t">>
      [] rtype \in {<<"r", "a", "d", "i", "o">>, <<"r", "a", "d", "i", "o", "g", "r", "o", "u", "p">>, <<"c", "h", "o", "i", "c", "e">>} -> <<"r", "a", "d", "i", "o">>
      [] rtype \in {<<"i", "n", "p", "u", "t">>, <<"s", "h", "o", "r", "t", "t", "e", "x", "t">>, <<"t", "e", "x", "t", "i", "n", "p", "u", "t">>} -> <<"t", "e", "x", "t">>
      [] rtype \in {<<"t", "e", "x", "t", "a", "r", "e", "a">>, <<"l", "o", "n", "g", "t", "e", "x", "t">>} -> <<"t", "e", "x", "t", "a", "r", "e", "a">>
      [] rtype \in {<<"f", "i", "l", "e">>, <<"u", "p", "l", "o", "a", "d">>, <<"f", "i", "l", "e", "_", "u", "p", "l", "o", "a", "d">>, <<"r", "e", "s", "u", "m", "e", "_", "u", "p", "l", "o", "a", "d">>} -> <<"f", "i", "l", "e">>
      [] rtype \notin {<<"t", "e", "x", "t">>, <<"t", "e", "x", "t", "a", "r", "e", "a">>, <<"s", "e", "l", "e", "c", "t">>, <<"m", "u", "l", "t", "i", "s", "e", "l", "e", "c", "t">>, <<"r", "a", "d", "i", "o">>, <<"f", "i", "l", "e">>, <<"u", "n", "k", "n", "o", "w", "n">>} -> TUnknown
      [] OTHER -> rtype

Forced(rtype) == rtype \in {<<"c", "h", "e", "c", "k", "b", "o", "x">>, <<"c", "h", "e", "c", "k", "b", "o", "x", "e", "s">>}

NormalizedField(fid, question, type, allows_multiple, src) ==
    [id |-> fid, question |-> question, type |-> type,
     allows_multiple |-> allows_multiple, src |-> src]

\* One pass of the loop of form_answer_gemini.normalize_fields over raw
\* record number k; the result is the record to append, when there is one.
normalize_gemini(raw, k) ==
    LET fid == strip(FirstTruthy(<<raw.id, raw.name>>, Absent))
        question == strip(FirstTruthy(<<raw.question, raw.label>>, Absent))
        rtype == lower(FirstTruthy(<<raw.type, raw.kind>>, TUnknown))
        allows_multiple == AllowsMultiple(raw, rtype) \/ Forced(rtype)
    IN  IF fid /= <<>> /\ question /= <<>>
        THEN <<NormalizedField(fid, question, CoerceGemini(rtype), allows_multiple, k)>>
        ELSE <<>>

\* The same pass in a6_complete_skipped_fields.normalize_fields, which reads
\* input_type before type and kind (and question_id before id, a key that no
\* record of RawRecords carries).
normalize_a6(raw, k) ==
    LET fid == strip(FirstTruthy(<<raw.id, raw.name>>, Absent))
        question == strip(FirstTruthy(<<raw.question, raw.label>>, Absent))
        rtype == lower(FirstTruthy(<<raw.input_type, raw.type, raw.kind>>, TUnknown))
        allows_multiple == AllowsMultiple(raw, rtype) \/ Forced(rtype)
    IN  IF fid /= <<>> /\ question /= <<>>
        THEN <<NormalizedField(fid, question, CoerceA6(rtype), allows_multiple, k)>>
        ELSE <<>>

Normalizers == {"form_answer_gemini.normalize_fields", "a6.normalize_fields"}

RECURSIVE NormalizeFrom(_, _, _)
NormalizeFrom(fn, fields_list, k) ==
    IF k > Len(fields_list) THEN <<>>
    ELSE (IF fn = "a6.normalize_fields"
          THEN normalize_a6(fields_list[k], k)
          ELSE normalize_gemini(fields_list[k], k))
         \o NormalizeFrom(fn, fields_list, k + 1)

\* normalize_fields on a list of raw records: the fields kept, or ValueError
\* when none is.
normalize_fields(fn, fields_list) ==
    LET out == The({NormalizeFrom(fn, f, 1) : f \in {fields_list}})
    IN  [fields |-> out, raised |-> out = <<>>]

\* Raw records: the keys of each chain, a missing key being Absent.
RawIds ==
    {[id |-> i, name |-> n] :
        i \in {Absent, <<"f", "1">>, <<" ">>}, n \in {Absent, <<"n", "1">>}}

RawQuestions ==
    {[question |-> q, label |-> l] :
        q \in {Absent, <<"Q">>, <<" ">>}, l \in {Absent, <<"L">>}}

RawTypeStrings ==
    {<<"s", "e", "l", "e", "c", "t">>,
     <<"d", "r", "o", "p", "d", "o", "w", "n">>,
     <<"c", "o", "m", "b", "o">>,
     <<"c", "o", "m", "b", "o", "b", "o", "x">>,
     <<"c", "h", "e", "c", "k", "b", "o", "x">>,
     <<"c", "h", "e", "c", "k", "b", "o", "x", "e", "s">>,
     <<"r", "a", "d", "i", "o">>,
     <<"r", "a", "d", "i", "o", "g", "r", "o", "u", "p">>,
     <<"c", "h", "o", "i", "c", "e">>,
     <<"i", "n", "p", "u", "t">>,
     <<"s", "h", "o", "r", "t", "t", "e", "x", "t">>,
     <<"t", "e", "x", "t", "i", "n", "p", "u", "t">>,
     <<"t", "e", "x", "t", "a", "r", "e", "a">>,
     <<"l", "o", "n", "g", "t", "e", "x", "t">>,
     <<"f", "i", "l", "e">>,
     <<"u", "p", "l", "o", "a", "d">>,
     <<"r", "e", "s", "u", "m", "e", "_", "u", "p", "l", "o", "a", "d">>,
     <<"f", "i", "l", "e", "_", "u", "p", "l", "o", "a", "d">>,
     <<"t", "e", "x", "t">>,
     <<"m", "u", "l", "t", "i", "s", "e", "l", "e", "c", "t">>,
     <<"u", "n", "k", "n", "o", "w", "n">>,
     <<"e", "m", "a", "i", "l">>,
     <<"S", "e", "l", "e", "c", "t">>,
     <<"F", "i", "l", "e">>,
     <<"c", "h", "i", "p", "s">>}

\* What the extractors write: form_extractor.py puts "checkbox-group" under
\* kind and no type; a4 puts the widget under kind; other producers use type
\* or input_type.
RawTypes ==
    {[input_type |-> Absent, type |-> t, kind |-> Absent] : t \in RawTypeStrings \cup {Absent}}
    \cup {[input_type |-> Absent, type |-> Absent, kind |-> k] :
            k \in {<<"c", "h", "e", "c", "k", "b", "o", "x", "-", "g", "r", "o", "u", "p">>, <<"c", "h", "e", "c", "k", "b", "o", "x">>, <<"c", "o", "m", "b", "o", "b", "o", "x">>}}
    \cup {[input_type |-> <<"f", "i", "l", "e">>, type |-> <<"t", "e", "x", "t">>, kind |-> Absent]}

RawRecord(i, q, t, m) ==
    [id |-> i.id, name |-> i.name, question |-> q.question, label |-> q.label,
     input_type |-> t.input_type, type |-> t.type, kind |-> t.kind, multiple |-> m]

RawRecords ==
    {RawRecord(i, q, t, m) :
        i \in RawIds, q \in RawQuestions, t \in RawTypes, m \in {"absent", "true", "false"}}

\* A record every normalizer keeps.
PlainRaw ==
    [id |-> <<"f", "2">>, name |-> Absent, question |-> <<"Q">>, label |-> Absent,
     input_type |-> Absent, type |-> <<"t", "e", "x", "t">>, kind |-> Absent, multiple |-> "absent"]

RawForms == {<<r>> : r \in RawRecords} \cup {<<r, PlainRaw>> : r \in RawRecords}

\* normalize_fields, the whole call.
NormalizeFields ==
    /\ x_fn \in Normalizers
    /\ x_pc = "ready"
    /\ x_out' = normalize_fields(x_fn, x_in.form)
    /\ x_pc' = "done"
    /\ UNCHANGED <<x_fn, x_in>>
    /\ UNCHANGED <<pipeVars, runVars, chooseVars, widgetVars>>

\* ------------------------------------------------------------------------
\* Label inference of the extractors
\* ------------------------------------------------------------------------

\* String.prototype.trim() on the texts of this section.
trim(s) == IF s = " " THEN "" ELSE s

\* An element the control may be bound to: none, or one that is visible or
\* not and has a text.
NoElement == [present |-> FALSE, visible |-> FALSE, text |-> ""]

Elements(text) ==
    {NoElement,
     [present |-> TRUE, visible |-> FALSE, text |-> text],
     [present |-> TRUE, visible |-> TRUE, text |-> " "],
     [present |-> TRUE, visible |-> TRUE, text |-> text]}

\* The control whose question text is inferred: the label with for=id, the
\* label around it, the text of the elements aria-labelledby names, its
\* attributes, the legend of its fieldset and the label-like element near it.
Controls ==
    [by_for : Elements("for label"),
     wrap : Elements("wrapping label"),
     labelledby : {"", "labelledby text"},
     aria_label : {"", " ", "aria label"},
     placeholder : {"", "placeholder"},
     legend : {NoElement, [present |-> TRUE, visible |-> TRUE, text |-> "legend"],
               [present |-> TRUE, visible |-> FALSE, text |-> "legend"]},
     nearby : {NoElement, [present |-> TRUE, visible |-> TRUE, text |-> "nearby label"]},
     name : {"", "name"}]

Shown(el) == el.present /\ el.visible

\* a4_enhanced_form_extractor.py _label_js: each test returns as soon as it
\* passes, with the trimmed text even when that is empty.
label_js(e) ==
    CASE Shown(e.by_for) -> trim(e.by_for.text)
      [] Shown(e.wrap) -> trim(e.wrap.text)
      [] e.labelledby /= "" -> e.labelledby
      [] e.aria_label /= "" -> trim(e.aria_label)
      [] e.placeholder /= "" -> trim(e.placeholder)
      [] e.legend.present -> trim(e.legend.text)
      [] e.nearby.present -> trim(e.nearby.text)
      [] OTHER -> ""

\* form_extractor.py labelFor inside extract_fields_initial.
labelFor(el) ==
    CASE Shown(el.by_for) -> trim(el.by_for.text)
      [] Shown(el.wrap) -> trim(el.wrap.text)
      [] el.labelledby /= "" -> el.labelledby
      [] el.aria_label /= "" -> trim(el.aria_label)
      [] Shown(el.legend) -> trim(el.legend.text)
      [] Shown(el.nearby) -> trim(el.nearby.text)
      [] el.placeholder /= "" -> trim(el.placeholder)
      [] OTHER -> trim(el.name)

Labellers == {"_label_js", "labelFor"}

\* One evaluation of a label function on a control.
InferLabel ==
    /\ x_fn \in Labellers
    /\ x_pc = "ready"
    /\ x_out' = [text |-> IF x_fn = "_label_js"
                          THEN label_js(x_in.control)
                          ELSE labelFor(x_in.control)]
    /\ x_pc' = "done"
    /\ UNCHANGED <<x_fn, x_in>>
    /\ UNCHANGED <<pipeVars, runVars, chooseVars, widgetVars>>

\* ------------------------------------------------------------------------
\* Specification of the discovery and normalisation helpers
\* ------------------------------------------------------------------------
InitExtract ==
    /\ PipeIdle
    /\ RunIdle
    /\ ChooseIdle
    /\ WidgetIdle
    /\ x_pc = "ready"
    /\ x_fn \in ComboDiscoverers \cup Normalizers \cup Labellers
    /\ x_in \in CASE x_fn \in ComboDiscoverers -> {[boxes |-> b] : b \in BoxLists}
                  [] x_fn \in Normalizers -> {[form |-> f] : f \in RawForms}
                  [] OTHER -> {[control |-> c] : c \in Controls}
    /\ x_out = IF x_fn \in ComboDiscoverers
               THEN [i |-> 1, open |-> {}, last |-> 0, got |-> <<>>, raised |-> FALSE]
               ELSE NoInput

NextExtract ==
    \/ DiscoverCombobox
    \/ NormalizeFields
    \/ InferLabel

SpecExtract == InitExtract /\ [][NextExtract]_vars

\* ------------------------------------------------------------------------
\* Properties of discovery and normalisation
\* ------------------------------------------------------------------------

\* C22: after the options of a combobox have been looked for, its menu is
\* closed before discovery goes on to the next field, whether or not options
\* were read: no menu that discovery opened is open when the loop is about
\* to examine another field.
C22_MenusClosedBetweenFields ==
    (x_fn \in ComboDiscoverers /\ x_pc = "loop") => x_out.open = {}

\* The keys a normalizer reads the id, the question and the type from.
IdOf(raw) == strip(FirstTruthy(<<raw.id, raw.name>>, Absent))

QuestionOf(raw) == strip(FirstTruthy(<<raw.question, raw.label>>, Absent))

RawTypeOf(fn, raw) ==
    IF fn = "a6.normalize_fields"
    THEN FirstTruthy(<<raw.input_type, raw.type, raw.kind>>, TUnknown)
    ELSE FirstTruthy(<<raw.type, raw.kind>>, TUnknown)

Normalized == x_fn \in Normalizers /\ x_pc = "done"

\* Raw record k is among the normalized fields.
Kept(k) == \E j \in 1..Len(x_out.fields) : x_out.fields[j].src = k

\* C23: a raw record with neither a resolvable id nor question text is
\* dropped, and a raw record with a resolvable id is kept even when its
\* question text is empty.
C23_IdAloneSurvives ==
    Normalized =>
        \A k \in 1..Len(x_in.form) :
            /\ IdOf(x_in.form[k]) /= <<>> => Kept(k)
            /\ (IdOf(x_in.form[k]) = <<>> /\ QuestionOf(x_in.form[k]) = <<>>) => ~Kept(k)

\* The coercion table as the contract gives it; a canonical kind stands for
\* itself.
CoercionTable(t) ==
    CASE t \in {<<"s", "e", "l", "e", "c", "t">>, <<"d", "r", "o", "p", "d", "o", "w", "n">>, <<"c", "o", "m", "b", "o">>, <<"c", "o", "m", "b", "o", "b", "o", "x">>} -> <<"s", "e", "l", "e", "c", "t">>
      [] t \in {<<"c", "h", "e", "c", "k", "b", "o", "x">>, <<"c", "h", "e", "c", "k", "b", "o", "x", "e", "s">>, <<"m", "u", "l", "t", "i", "s", "e", "l", "e", "c", "t">>} -> <<"m", "u", "l", "t", "i", "s", "e", "l", "e", "c", "t">>
      [] t \in {<<"r", "a", "d", "i", "o">>, <<"r", "a", "d", "i", "o", "g", "r", "o", "u", "p">>, <<"c", "h", "o", "i", "c", "e">>} -> <<"r", "a", "d", "i", "o">>
      [] t \in {<<"i", "n", "p", "u", "t">>, <<"s", "h", "o", "r", "t", "t", "e", "x", "t">>, <<"t", "e", "x", "t", "i", "n", "p", "u", "t">>, <<"t", "e", "x", "t">>} -> <<"t", "e", "x", "t">>
      [] t \in {<<"t", "e", "x", "t", "a", "r", "e", "a">>, <<"l", "o", "n", "g", "t", "e", "x", "t">>} -> <<"t", "e", "x", "t", "a", "r", "e", "a">>
      [] t \in {<<"f", "i", "l", "e">>, <<"u", "p", "l", "o", "a", "d">>, <<"r", "e", "s", "u", "m", "e", "_", "u", "p", "l", "o", "a", "d">>} -> <<"f", "i", "l", "e">>
      [] OTHER -> <<"u", "n", "k", "n", "o", "w", "n">>

\* C24: every normalizer gives a field the canonical kind that the coercion
\* table assigns to its raw type string (file, upload and resume_upload
\* become file, anything outside the table becomes unknown).
C24_CoercionTable ==
    Normalized =>
        \A j \in 1..Len(x_out.fields) :
            x_out.fields[j].type =
                CoercionTable(lower(RawTypeOf(x_fn, x_in.form[x_out.fields[j].src])))

\* C25: a control with a non-empty aria-label gets that aria-label as its
\* question text, whatever label elements are bound to it.
C25_AriaLabelFirst ==
    (x_fn \in Labellers /\ x_pc = "done" /\ trim(x_in.control.aria_label) /= "")
        => x_out.text = trim(x_in.control.aria_label)

\* The record an extractor writes for a group of checkboxes: the widget is
\* under kind and there is no type.
FromCheckboxGroup(raw) ==
    /\ raw.input_type = Absent
    /\ raw.type = Absent
    /\ raw.kind \in {<<"c", "h", "e", "c", "k", "b", "o", "x", "-", "g", "r", "o", "u", "p">>, <<"c", "h", "e", "c", "k", "b", "o", "x">>}

\* C26: every normalized field whose kind is multiselect, and every
\* normalized field made from the record of a checkbox group, allows several
\* values.
C26_MultiselectAllowsMultiple ==
    Normalized =>
        \A j \in 1..Len(x_out.fields) :
            (\/ x_out.fields[j].type = <<"m", "u", "l", "t", "i", "s", "e", "l", "e", "c", "t">>
             \/ FromCheckboxGroup(x_in.form[x_out.fields[j].src]))
                => x_out.fields[j].allows_multiple

\* A checkbox group whose record says multiple = false is normalized by
\* form_answer_gemini.py to kind unknown and still allows several values.
C26_Witness ==
    /\ Normalized
    /\ x_fn = "form_answer_gemini.normalize_fields"
    /\ x_in.form[1].kind = <<"c", "h", "e", "c", "k", "b", "o", "x", "-", "g", "r", "o", "u", "p">>
    /\ x_in.form[1].type = Absent
    /\ x_in.form[1].multiple = "false"
    /\ Len(x_out.fields) >= 1
    /\ x_out.fields[1].src = 1
    /\ x_out.fields[1].type = TUnknown
    /\ x_out.fields[1].allows_multiple

\* ------------------------------------------------------------------------
\* The end of a fill run: approval prompt, then the submit control
\* ------------------------------------------------------------------------
ScriptRuns == {"a7.main", "fill_form.main", "fill_form_resume.main"}

FillRuns == ScriptRuns \cup {"run_once"}

\* What is typed at the approval prompt; with eof the input has ended.
ApprovalLines == {"y", "Yes", " yes ", "", "n", "Maybe"}

Typed == {[eof |-> FALSE, line |-> l] : l \in ApprovalLines} \cup {[eof |-> TRUE, line |-> ""]}

\* What the page does: whether a submit-like control is found and clicked,
\* whether a navigation is observed after the click, whether a success text
\* is on the page afterwards, and whether a submit-like control is found at
\* a second look; no navigation is observed without a click.  apply says
\* what the page shows when it is opened: no visible Apply / Continue
\* control, one that leads to the form ("opens"), or the form itself with
\* a submit control that reads Apply ("submit").
SubmitPages ==
    {p \in [apply : {"none", "opens", "submit"}, button : BOOLEAN, navigates : BOOLEAN,
            success : BOOLEAN, button_again : BOOLEAN] :
        p.navigates => p.button}

NoAnswer == [prompted |-> FALSE, ok |-> FALSE, raised |-> FALSE]

\* approved() of the three scripts, REQUIRE_APPROVAL being True:
\* AUTO_APPROVE_SUBMIT in 1/true/yes/y approves without a prompt; otherwise
\* the prompt is answered, y / yes approve and EOFError does not.
approved(auto_approve, typed) ==
    IF auto_approve THEN [prompted |-> FALSE, ok |-> TRUE, raised |-> FALSE]
    ELSE IF typed.eof THEN [prompted |-> TRUE, ok |-> FALSE, raised |-> FALSE]
    ELSE [prompted |-> TRUE, ok |-> CaseFold(Strip(typed.line)) \in {"y", "yes"},
          raised |-> FALSE]

\* yes_no("Ready to submit the application?", default=True) of run_once:
\* input() is not guarded, so the end of input raises EOFError.
ready_to_submit(typed) ==
    IF typed.eof THEN [prompted |-> TRUE, ok |-> FALSE, raised |-> TRUE]
    ELSE [prompted |-> TRUE, ok |-> yes_no(CaseFold(Strip(typed.line)), TRUE),
          raised |-> FALSE]

\* maybe_click_submit / click_submit: the first candidate that is found is
\* clicked once; the result says whether one was.
maybe_click_submit(found, clicks) == IF found THEN clicks + 1 ELSE clicks

\* a7 main before the fill loop: click_apply_like_things clicks the first
\* visible control among button / a / [role=button] with the text Apply or
\* Continue, whatever that control does.
ClickApplyLikeThings ==
    /\ x_fn = "a7.main"
    /\ x_pc = "opened"
    /\ x_out' = [x_out EXCEPT !.clicks = IF x_in.page.apply = "submit" THEN @ + 1 ELSE @]
    /\ x_pc' = "ready"
    /\ UNCHANGED <<x_fn, x_in>>
    /\ UNCHANGED <<pipeVars, runVars, chooseVars, widgetVars>>

\* The approval gate.
ApprovalGate ==
    /\ x_fn \in FillRuns
    /\ x_pc = "ready"
    /\ LET a == IF x_fn = "run_once"
                THEN ready_to_submit(x_in.typed)
                ELSE approved(x_in.auto_approve, x_in.typed)
       IN  /\ x_out' = [x_out EXCEPT !.prompted = a.prompted, !.approved = a.ok,
                                     !.raised = a.raised]
           /\ x_pc' = IF a.ok THEN "approved" ELSE "done"
    /\ UNCHANGED <<x_fn, x_in>>
    /\ UNCHANGED <<pipeVars, runVars, chooseVars, widgetVars>>

\* The first attempt: the scripts click inside page.expect_navigation, which
\* raises when no navigation is observed; run_once clicks and goes on.
ClickSubmit ==
    /\ x_fn \in FillRuns
    /\ x_pc = "approved"
    /\ x_out' = [x_out EXCEPT !.clicks = maybe_click_submit(x_in.page.button, @),
                              !.did_submit = x_in.page.button]
    /\ x_pc' = IF x_fn \in ScriptRuns /\ ~x_in.page.navigates
               THEN "no_navigation"
               ELSE "done"
    /\ UNCHANGED <<x_fn, x_in>>
    /\ UNCHANGED <<pipeVars, runVars, chooseVars, widgetVars>>

\* The except branch: a7 looks for a success text and clicks again when there
\* is none; fill_form.py and fill_form_resume.py click again at once.
AfterNoNavigation ==
    /\ x_fn \in ScriptRuns
    /\ x_pc = "no_navigation"
    /\ x_out' = IF x_fn = "a7.main" /\ x_in.page.success
                THEN [x_out EXCEPT !.did_submit = TRUE]
                ELSE [x_out EXCEPT !.clicks = maybe_click_submit(x_in.page.button_again, @),
                                   !.did_submit = x_in.page.button_again]
    /\ x_pc' = "done"
    /\ UNCHANGED <<x_fn, x_in>>
    /\ UNCHANGED <<pipeVars, runVars, chooseVars, widgetVars>>

InitSubmit ==
    /\ PipeIdle
    /\ RunIdle
    /\ ChooseIdle
    /\ WidgetIdle
    /\ x_fn \in FillRuns
    /\ x_pc = IF x_fn = "a7.main" THEN "opened" ELSE "ready"
    /\ x_in \in {[auto_approve |-> a, typed |-> t, page |-> p] :
                    a \in (IF x_fn = "run_once" THEN {FALSE} ELSE BOOLEAN),
                    t \in Typed,
                    p \in {q \in SubmitPages : x_fn /= "a7.main" => q.apply = "none"}}
    /\ x_out = [prompted |-> FALSE, approved |-> FALSE, raised |-> FALSE,
                clicks |-> 0, did_submit |-> FALSE]

NextSubmit ==
    \/ ClickApplyLikeThings
    \/ ApprovalGate
    \/ ClickSubmit
    \/ AfterNoNavigation

SpecSubmit == InitSubmit /\ [][NextSubmit]_vars

\* C27: in a fill run where approval is required, the submit control is
\* clicked only after the approval prompt was answered y / yes; any other
\* answer and the end of input leave the run without a click on it.
C27_OnlyYesClicks ==
    (x_fn \in FillRuns /\ ~x_in.auto_approve /\ x_out.clicks > 0) =>
        /\ x_out.prompted
        /\ ~x_in.typed.eof
        /\ CaseFold(Strip(x_in.typed.line)) \in {"y", "yes"}

\* C28: one fill run clicks a submit-like control at most once, whether or
\* not a navigation is observed after the click.
C28_AtMostOneSubmitClick ==
    x_fn \in FillRuns => x_out.clicks <= 1

\* ------------------------------------------------------------------------
\* Properties of validate_and_clip's outputs
\* ------------------------------------------------------------------------
SkippedIds(skipped) == {skipped[i].id : i \in 1..Len(skipped)}

\* C29: validate_and_clip's outputs partition the fields by id: every field
\* id is in the answers map or in the skipped list, and none is in both.
C29_AnswersAndSkippedPartition ==
    pc \in {"a6", "bot_a5_done"} =>
        \A fid \in FieldIds(form) :
            (fid \in DOMAIN filled_answers) /= (fid \in SkippedIds(skipped_fields))

\* ------------------------------------------------------------------------
\* Properties of the chat-bot conversation
\* ------------------------------------------------------------------------

\* C30: in the chat-bot conversation the fill-and-submit step is started
\* only by an approval given in WAITING_FOR_QA_APPROVAL, after all answers
\* were shown: no step starts it from any other place of the conversation.
C30_FillOnlyAfterQAApproval ==
    [][(mode = "bot" /\ pc' = "a7" /\ pc /= "a7") => pc = "bot_qa"]_vars

====
